---- MODULE Spec2Model ----
(***************************************************************************)
(* A model of the reinforcement-learning core of the second-hand price     *)
(* predictor: the replay buffer, the market environment and the DQN agent  *)
(* (src/src/model/drl_model.py, src/src/model/market_environment.py).      *)
(***************************************************************************)
EXTENDS Integers, Sequences, FiniteSets, TLC

VARIABLES
    memory,        \* ReplayBuffer.buffer: the deque's contents, oldest first
    buffer_size,   \* the deque's maxlen (ReplayBuffer capacity)
    added,         \* history: every experience passed to add, in call order
    env,           \* the MarketEnvironment instance (its attributes)
    now,           \* the wall clock: what datetime.now() returns
    ret,           \* the last call made on the environment or, by a caller
                   \* other than train and evaluate, on the agent: its
                   \* arguments, what it returned or raised
    steps_since_reset,  \* history: step calls since the last reset() returned
    seen_sizes,    \* history: get_state_space_size() results and state lengths
    adjustments,   \* history: _action_to_adjustment(a) for a = 0, 1, ... in order
    agent,         \* the DQNAgent instance (its attributes but its memory)
    run            \* the train or evaluate call in progress: its arguments,
                   \* its locals and the statement it is at

bufVars == <<memory, buffer_size, added>>
envVars == <<env, now, ret, steps_since_reset, seen_sizes>>
adjVars == <<adjustments>>
agentVars == <<agent, run>>

vars == <<bufVars, envVars, adjVars, agentVars>>

(***************************************************************************)
(* Bounds of the model.                                                    *)
(***************************************************************************)
MaxCapacity == 3
MaxAdds == 5
MaxTag == 2
MaxSteps == 2          \* max_steps of the configs considered
MaxActionSteps == 2    \* price_adjustment_steps of the configs considered
MaxRangeTenths == 3    \* price_adjustment_range bounds lie in -0.3..0.3
MaxRangeSteps == 3     \* price_adjustment_steps of the ranges considered
NumCategories == 1     \* categories reset() draws from (a prefix of the list)
NumConditions == 1     \* conditions reset() draws from (a prefix of the list)
ExtraSteps == 1        \* step calls made after done = True
OverrunSteps == 2      \* step calls made after done = True, where they are the subject
MaxStateSize == 2      \* state_size of the agents and checkpoints considered
MaxActionSize == 2     \* action_size of the agents and checkpoints considered
MaxHiddenSize == 2     \* hidden_size of the agents and checkpoints considered
MaxQ == 1              \* the network's action values lie in 0..MaxQ
MaxEpisodes == 2       \* episodes of the train and evaluate calls considered
ResetCategories == 3   \* categories reset() draws from, all conditions considered
MaxStepCap == 2        \* the max_steps argument of train and evaluate is None or 0..MaxStepCap
MaxStepCalls == 4      \* agent.step calls of the exploration schedule considered
MaxLearnCalls == 2     \* agent.step calls of the learning updates considered

Min(a, b) == IF a < b THEN a ELSE b
Max(a, b) == IF a > b THEN a ELSE b

(***************************************************************************)
(* Python floats.  The environment computes in IEEE 754 binary64; a float  *)
(* is modelled by its exact value sg * m * 2^e, m an odd natural number    *)
(* held as a sequence of limbs (least significant first), and every        *)
(* arithmetic operation rounds its exact result to the nearest value with  *)
(* a 53-bit significand, ties to even.  Exponents are not bounded: the     *)
(* magnitudes of the model stay far from overflow and from subnormals.     *)
(* Signed zeros, infinities and NaN are not modelled.                      *)
(***************************************************************************)
Pow2Table ==
    <<1, 2, 4, 8, 16, 32, 64, 128, 256, 512, 1024, 2048, 4096, 8192, 16384, 32768>>

\* A limb holds LimbBits bits: products of two limbs stay within 32 bits.
LimbBits == Len(Pow2Table) - 1
LimbBase == Pow2Table[Len(Pow2Table)]

\* 2^k for k in 0..LimbBits
Pow2(k) == Pow2Table[k + 1]

\* the number of bits of a limb n
IntBitLen(n) ==
    IF n = 0 THEN 0
    ELSE CHOOSE b \in 1..LimbBits : Pow2(b - 1) <= n /\ n < Pow2(b)

\* the number of trailing zero bits of a limb n > 0
IntTrailingZeros(n) == CHOOSE z \in 0..(LimbBits - 1) : n % Pow2(z + 1) = Pow2(z)

Limb(a, i) == IF 1 <= i /\ i <= Len(a) THEN a[i] ELSE 0

\* the position of the most significant non-zero limb, 0 if there is none
BTop(a) ==
    IF \A i \in 1..Len(a) : a[i] = 0 THEN 0
    ELSE CHOOSE i \in 1..Len(a) : a[i] # 0 /\ \A j \in (i + 1)..Len(a) : a[j] = 0

\* a without its leading zero limbs
BNorm(a) ==
    IF Len(a) > 0 /\ a[Len(a)] # 0 THEN SubSeq(a, 1, Len(a))
    ELSE SubSeq(a, 1, BTop(a))

\* n in 0..2^31-1
BFromInt(n) ==
    BNorm(<<n % LimbBase, (n \div LimbBase) % LimbBase, n \div (LimbBase * LimbBase)>>)

BOne == <<1>>

BCmp(a, b) ==
    IF Len(a) # Len(b) THEN (IF Len(a) < Len(b) THEN -1 ELSE 1)
    ELSE IF \A i \in 1..Len(a) : a[i] = b[i] THEN 0
    ELSE IF \E i \in 1..Len(a) :
                a[i] < b[i] /\ \A j \in (i + 1)..Len(a) : a[j] = b[j] THEN -1
    ELSE 1

\* the carry into position i of a + b
BCarry(a, b, i) ==
    IF \E j \in 1..(i - 1) :
          /\ Limb(a, j) + Limb(b, j) >= LimbBase
          /\ \A k \in (j + 1)..(i - 1) : Limb(a, k) + Limb(b, k) = LimbBase - 1
    THEN 1 ELSE 0

BAdd(a, b) ==
    IF Len(a) = 0 THEN b
    ELSE IF Len(b) = 0 THEN a
    ELSE BNorm([i \in 1..(Max(Len(a), Len(b)) + 1) |->
                   (Limb(a, i) + Limb(b, i) + BCarry(a, b, i)) % LimbBase])

\* the borrow from position i of a - b
BBorrow(a, b, i) ==
    IF \E j \in 1..(i - 1) :
          /\ a[j] < Limb(b, j)
          /\ \A k \in (j + 1)..(i - 1) : a[k] <= Limb(b, k)
    THEN 1 ELSE 0

\* a - b for a >= b
BSub(a, b) ==
    IF Len(b) = 0 THEN a
    ELSE BNorm([i \in 1..Len(a) |->
                   (a[i] - Limb(b, i) - BBorrow(a, b, i) + LimbBase) % LimbBase])

\* a * k for k in 0..LimbBase: the low halves of the limb products plus
\* their high halves one position up
BMulSmall(a, k) ==
    IF Len(a) = 0 \/ k = 0 THEN <<>>
    ELSE BAdd(BNorm([i \in 1..Len(a) |-> (a[i] * k) % LimbBase]),
              BNorm([i \in 1..(Len(a) + 1) |-> (Limb(a, i - 1) * k) \div LimbBase]))

\* a * 2^s for s in 0..LimbBits-1
BShlBits(a, s) ==
    BNorm([i \in 1..(Len(a) + 1) |->
              ((Limb(a, i) * Pow2(s)) % LimbBase)
              + (Limb(a, i - 1) \div Pow2(LimbBits - s))])

BShlLimbs(a, q) == IF Len(a) = 0 THEN <<>> ELSE [i \in 1..q |-> 0] \o a

BShl(a, k) == BShlLimbs(BShlBits(a, k % LimbBits), k \div LimbBits)

BShrBits(a, q, s) ==
    BNorm([i \in 1..(Len(a) - q) |->
              (a[i + q] \div Pow2(s))
              + (Limb(a, i + q + 1) % Pow2(s)) * Pow2(LimbBits - s)])

BShr(a, k) == BShrBits(a, k \div LimbBits, k % LimbBits)

RECURSIVE BMulFrom(_, _, _)
BMulFrom(a, b, i) ==
    IF i > Len(b) THEN <<>>
    ELSE BAdd(BShlLimbs(BMulSmall(a, b[i]), i - 1), BMulFrom(a, b, i + 1))

BMul(a, b) == BMulFrom(a, b, 1)

BBitLen(a) == IF Len(a) = 0 THEN 0
              ELSE LimbBits * (Len(a) - 1) + IntBitLen(a[Len(a)])

\* bit j of a, bit 0 the least significant
BBit(a, j) == (Limb(a, j \div LimbBits + 1) \div Pow2(j % LimbBits)) % 2

\* the number of trailing zero bits of a > 0
BTrailingZeros(a) ==
    CHOOSE z \in 0..(LimbBits * Len(a) - 1) :
        BBit(a, z) = 1 /\ \A j \in 0..(z - 1) : BBit(a, j) = 0

\* The quotient limb of r by d, where the top limb of d is at least
\* LimbBase / 2 and r < d * LimbBase: the estimate t from the leading limbs
\* is at most 2 too large.
BDigitFrom(d, r, t) ==
    IF BCmp(BMulSmall(d, t), r) <= 0 THEN t
    ELSE IF BCmp(BMulSmall(d, t - 1), r) <= 0 THEN t - 1
    ELSE t - 2

BDigit(d, r) ==
    BDigitFrom(d, r,
               Min(LimbBase - 1,
                   (Limb(r, Len(d) + 1) * LimbBase + Limb(r, Len(d))) \div d[Len(d)]))

\* Schoolbook long division of n by d, both scaled by 2^sh: the limbs of n
\* from position i down to 1 are still to be brought down, q holds the
\* quotient limbs found and r < d is the running remainder.
RECURSIVE BLongDiv(_, _, _, _, _, _)

BLongDivPush(n, d, sh, i, q, r2, t) ==
    BLongDiv(n, d, sh, i - 1, <<t>> \o q, BSub(r2, BMulSmall(d, t)))

BLongDivLimb(n, d, sh, i, q, r2) ==
    IF BCmp(r2, d) < 0 THEN BLongDiv(n, d, sh, i - 1, <<0>> \o q, r2)
    ELSE BLongDivPush(n, d, sh, i, q, r2, BDigit(d, r2))

BLongDiv(n, d, sh, i, q, r) ==
    IF i = 0 THEN [q |-> BNorm(q), r |-> BShr(r, sh)]
    ELSE BLongDivLimb(n, d, sh, i, q, BNorm(<<n[i]>> \o r))

\* n and d scaled by 2^sh, which makes the top limb of d at least LimbBase / 2
BDivModScaled(n, d, sh) ==
    IF Len(n) < Len(d) THEN [q |-> <<>>, r |-> BShr(n, sh)]
    ELSE BLongDiv(n, d, sh, Len(n) - Len(d) + 1, <<>>,
                  SubSeq(n, Len(n) - Len(d) + 2, Len(n)))

\* quotient and remainder of n by d > 0
BDivMod(n, d) ==
    BDivModScaled(BShlBits(n, LimbBits - IntBitLen(d[Len(d)])),
                  BShlBits(d, LimbBits - IntBitLen(d[Len(d)])),
                  LimbBits - IntBitLen(d[Len(d)]))

\* binary64 keeps 53 significant bits
MantissaBits == 53

FZero == [sg |-> 1, m |-> <<>>, e |-> 0]

\* sg * m * 2^e with the trailing zero bits of m moved into the exponent
FCanon(sg, m, e) ==
    IF Len(m) = 0 THEN FZero
    ELSE [sg |-> sg, m |-> BShr(m, BTrailingZeros(m)), e |-> e + BTrailingZeros(m)]

\* sg * (q + f) * 2^e, 0 <= f < 1 and f > 0 iff sticky, rounded to the
\* MantissaBits leading bits of q, which has k more: round half to even
FRoundCut(sg, e, q, sticky, k) ==
    FCanon(sg,
           IF /\ BBit(q, k - 1) = 1
              /\ (sticky \/ BTrailingZeros(q) < k - 1 \/ BBit(q, k) = 1)
           THEN BAdd(BShr(q, k), BOne)
           ELSE BShr(q, k),
           e + k)

FRoundQuot(sg, e, q, sticky) ==
    IF BBitLen(q) <= MantissaBits /\ ~sticky THEN FCanon(sg, q, e)
    ELSE FRoundCut(sg, e, q, sticky, BBitLen(q) - MantissaBits)

FRoundDiv(sg, e, qr) == FRoundQuot(sg, e, qr.q, Len(qr.r) > 0)

FRoundShift(sg, n, d, e, s) == FRoundDiv(sg, e - s, BDivMod(BShl(n, s), d))

\* the float nearest to sg * (n / d) * 2^e
FRound(sg, n, d, e) ==
    IF Len(n) = 0 THEN FZero
    ELSE IF d = BOne THEN FRoundQuot(sg, e, n, FALSE)
    ELSE FRoundShift(sg, n, d, e,
                     Max(0, MantissaBits + 2 + BBitLen(d) - BBitLen(n)))

Abs(i) == IF i < 0 THEN -i ELSE i
Sign(i) == IF i < 0 THEN -1 ELSE 1

FLit(n, d) == FRound(Sign(n), BFromInt(Abs(n)), BFromInt(d), 0)
FInt(i) == FCanon(Sign(i), BFromInt(Abs(i)), 0)

FIsZero(a) == Len(a.m) = 0
FNeg(a) == IF FIsZero(a) THEN a ELSE [a EXCEPT !.sg = -a.sg]

\* A, B: the magnitudes of the operands in units of 2^emin
FAddAligned(sa, sb, emin, A, B) ==
    FRound(IF sa = sb \/ BCmp(A, B) > 0 THEN sa ELSE sb,
           IF sa = sb THEN BAdd(A, B)
           ELSE IF BCmp(A, B) > 0 THEN BSub(A, B) ELSE BSub(B, A),
           BOne, emin)

FAdd(a, b) ==
    IF FIsZero(a) THEN b
    ELSE IF FIsZero(b) THEN a
    ELSE FAddAligned(a.sg, b.sg, Min(a.e, b.e),
                     BShl(a.m, a.e - Min(a.e, b.e)),
                     BShl(b.m, b.e - Min(a.e, b.e)))

FSub(a, b) == FAdd(a, FNeg(b))

FMul(a, b) ==
    IF FIsZero(a) \/ FIsZero(b) THEN FZero
    ELSE FRound(a.sg * b.sg, BMul(a.m, b.m), BOne, a.e + b.e)

FDiv(a, b) ==
    IF FIsZero(a) THEN FZero
    ELSE FRound(a.sg * b.sg, a.m, b.m, a.e - b.e)

\* -1, 0, 1 as a < b, a = b, a > b
FCmp(a, b) ==
    IF FIsZero(a) THEN (IF FIsZero(b) THEN 0 ELSE -b.sg)
    ELSE IF FIsZero(b) \/ a.sg # b.sg THEN a.sg
    ELSE a.sg * BCmp(BShl(a.m, a.e - Min(a.e, b.e)), BShl(b.m, b.e - Min(a.e, b.e)))

FLess(a, b) == FCmp(a, b) < 0

(***************************************************************************)
(* MarketEnvironment: tables and pure helpers                              *)
(***************************************************************************)

\* The value None, and the test "x is None" for a value x that is None or a
\* record (an item, the statistics of a category).
None == [None |-> TRUE]
IsNone(x) == "None" \in DOMAIN x

\* _generate_mock_category_stats: the ids of its category list, in order
MockCategoryIds ==
    <<"9355", "15032", "11450", "261007", "20081", "139971", "175672", "11700", "3676", "293",
      "15724", "11116", "619", "888", "26395", "14308", "550", "2984", "1249", "220">>

\* The row of a table (a sequence of rows) whose first entry is key
Row(table, key) == table[CHOOSE i \in 1..Len(table) : table[i][1] = key]

\* _generate_mock_category_stats: category id, then price_mean, price_std,
\* price_min, price_max, avg_days_to_sell, std_days_to_sell, in tenths
MockStatsTenths ==
    <<<<"9355", 8000, 3000, 2000, 20000, 125, 52>>,
      <<"15032", 4000, 1500, 1000, 12000, 83, 37>>,
      <<"11450", 3000, 2000, 500, 15000, 102, 45>>,
      <<"261007", 5000, 2500, 1500, 18000, 148, 63>>,
      <<"20081", 3500, 2000, 1000, 12000, 105, 48>>,
      <<"139971", 3000, 1500, 1000, 8000, 75, 32>>,
      <<"175672", 1200, 800, 200, 5000, 68, 29>>,
      <<"11700", 1800, 1200, 300, 8000, 92, 41>>,
      <<"3676", 4500, 3000, 1000, 20000, 153, 67>>,
      <<"293", 250, 200, 50, 1500, 185, 82>>,
      <<"15724", 600, 500, 100, 5000, 142, 65>>,
      <<"11116", 400, 300, 100, 2000, 118, 53>>,
      <<"619", 3500, 3000, 500, 20000, 205, 98>>,
      <<"888", 1200, 1000, 200, 8000, 137, 61>>,
      <<"26395", 2000, 1500, 500, 10000, 162, 74>>,
      <<"14308", 2500, 2000, 500, 15000, 223, 105>>,
      <<"550", 1800, 2000, 200, 20000, 258, 123>>,
      <<"2984", 2200, 2500, 300, 30000, 196, 89>>,
      <<"1249", 1500, 1200, 300, 8000, 174, 78>>,
      <<"220", 2800, 2200, 500, 25000, 159, 72>>>>

\* _generate_random_item: category id, then its price_range
PriceRange ==
    <<<<"9355", 300, 2000>>,
      <<"15032", 200, 1200>>,
      <<"11450", 50, 1500>>,
      <<"261007", 150, 1800>>,
      <<"20081", 100, 1200>>,
      <<"139971", 100, 800>>,
      <<"175672", 20, 500>>,
      <<"11700", 30, 800>>,
      <<"3676", 100, 2000>>,
      <<"293", 5, 150>>,
      <<"15724", 10, 500>>,
      <<"11116", 10, 200>>,
      <<"619", 50, 2000>>,
      <<"888", 20, 800>>,
      <<"26395", 50, 1000>>,
      <<"14308", 50, 1500>>,
      <<"550", 20, 2000>>,
      <<"2984", 30, 3000>>,
      <<"1249", 30, 800>>,
      <<"220", 50, 2500>>>>

\* _extract_item_features: the one-hot flags, feature name and category id
CategoryFlags ==
    <<<<"is_laptop", "9355">>,
      <<"is_phone", "15032">>,
      <<"is_watch", "11450">>,
      <<"is_camera", "261007">>,
      <<"is_tablet", "20081">>,
      <<"is_game_console", "139971">>,
      <<"is_headphone", "175672">>,
      <<"is_computer_component", "11700">>,
      <<"is_tv_audio", "3676">>,
      <<"is_book", "293">>,
      <<"is_clothing", "15724">>,
      <<"is_toy", "11116">>,
      <<"is_instrument", "619">>,
      <<"is_sport", "888">>,
      <<"is_appliance", "26395">>,
      <<"is_furniture", "14308">>,
      <<"is_art", "550">>,
      <<"is_jewelry", "2984">>,
      <<"is_tool", "1249">>,
      <<"is_bicycle", "220">>>>

\* _generate_random_item: the category list random.choice draws from
GeneratorCategories ==
    <<"9355", "15032", "11450", "261007",
      "20081", "139971", "175672", "11700", "3676", "293",
      "15724", "11116", "619", "888", "26395", "14308",
      "550", "2984", "1249", "220">>

StatFields ==
    <<"price_mean", "price_std", "price_min", "price_max",
      "avg_days_to_sell", "std_days_to_sell">>

\* _generate_mock_category_stats: category_stats as the dict of float records
MockCategoryStats ==
    [c \in {MockCategoryIds[i] : i \in 1..Len(MockCategoryIds)} |->
        [f \in {StatFields[j] : j \in 1..Len(StatFields)} |->
            FLit(Row(MockStatsTenths, c)[1 + CHOOSE j \in 1..Len(StatFields) : StatFields[j] = f],
                 10)]]

\* self.category_stats.get(category_id, {}).get(field, default)
StatsGet(stats, category_id, field, default) ==
    IF category_id \in DOMAIN stats /\ field \in DOMAIN stats[category_id]
    THEN stats[category_id][field]
    ELSE default

\* A Python str is modelled as the sequence of its characters.
\* str.lower() over the letters the condition names use
RECURSIVE ToLower(_)
ToLower(s) ==
    IF s = <<>> THEN <<>>
    ELSE LET up == <<"A", "F", "G", "L", "N", "U", "V">>
             lo == <<"a", "f", "g", "l", "n", "u", "v">>
             c == Head(s)
         IN <<IF \E i \in 1..Len(up) : up[i] = c
              THEN lo[CHOOSE i \in 1..Len(up) : up[i] = c] ELSE c>> \o ToLower(Tail(s))

\* sub in s, for Python strings
Contains(s, sub) ==
    \E i \in 1..(Len(s) - Len(sub) + 1) : SubSeq(s, i, i + Len(sub) - 1) = sub

\* the condition names of _generate_random_item and the default "Used"
CondNew == <<"N", "e", "w">>
CondLikeNew == <<"L", "i", "k", "e", " ", "N", "e", "w">>
CondVeryGood == <<"V", "e", "r", "y", " ", "G", "o", "o", "d">>
CondGood == <<"G", "o", "o", "d">>
CondAcceptable == <<"A", "c", "c", "e", "p", "t", "a", "b", "l", "e">>
CondForParts ==
    <<"F", "o", "r", " ", "p", "a", "r", "t", "s", " ", "o", "r", " ",
      "n", "o", "t", " ", "w", "o", "r", "k", "i", "n", "g">>
CondUsed == <<"U", "s", "e", "d">>

\* _generate_random_item: conditions
Conditions ==
    <<CondNew, CondLikeNew, CondVeryGood, CondGood, CondAcceptable, CondForParts>>

\* _condition_to_score, the score in tenths
ConditionToScoreTenths(condition) ==
    LET c == ToLower(condition)
    IN IF Contains(c, <<"n", "e", "w">>) THEN 10
       ELSE IF Contains(c, <<"l", "i", "k", "e", " ", "n", "e", "w">>) THEN 9
       ELSE IF Contains(c, <<"v", "e", "r", "y", " ", "g", "o", "o", "d">>) THEN 8
       ELSE IF Contains(c, <<"g", "o", "o", "d">>) THEN 6
       ELSE IF Contains(c, <<"a", "c", "c", "e", "p", "t", "a", "b", "l", "e">>) THEN 4
       ELSE IF \/ Contains(c, <<"f", "o", "r", " ", "p", "a", "r", "t", "s">>)
               \/ Contains(c, <<"n", "o", "t", " ", "w", "o", "r", "k", "i", "n", "g">>)
            THEN 1
       ELSE 5

_condition_to_score(condition) == FLit(ConditionToScoreTenths(condition), 10)


(***************************************************************************)
(* MarketEnvironment: construction                                         *)
(***************************************************************************)

\* _load_config: the "market" section used when the config file cannot be
\* read; decimals are given in tenths.
DefaultMarketConfig ==
    [max_steps |-> 30, price_sensitivity |-> 7, time_sensitivity |-> 3,
     market_volatility |-> 1, price_adjustment_range |-> <<-3, 3>>,
     price_adjustment_steps |-> 10, profit_weight |-> 7, time_weight |-> 3]

\* data/features/category_stats.json: absent, unreadable as JSON, or holding
\* a dict
NoStatsFile == [exists |-> FALSE]
CorruptStatsFile == [exists |-> TRUE, valid |-> FALSE]
StatsFile(dict) == [exists |-> TRUE, valid |-> TRUE, dict |-> dict]

\* _load_market_data: category_stats is what json.load returns; the mock
\* table when there is no file or when json.load raises
_load_market_data(stats_file) ==
    IF ~stats_file.exists THEN MockCategoryStats
    ELSE IF ~stats_file.valid THEN MockCategoryStats
    ELSE stats_file.dict

\* A price step that divides the range by the number of actions.
PriceStepPerAction(lo, hi, steps) == FDiv(FSub(hi, lo), FInt(steps))

\* __init__: self.price_step, the range divided into steps - 1 intervals
PriceStep(lo, hi, steps) == FDiv(FSub(hi, lo), FInt(steps - 1))

\* MarketEnvironment.__init__ for a config whose "market" section is market
MarketEnvironment(market, stats_file) ==
    LET lo == FLit(market.price_adjustment_range[1], 10)
        hi == FLit(market.price_adjustment_range[2], 10)
    IN [max_steps |-> market.max_steps,
        price_sensitivity |-> FLit(market.price_sensitivity, 10),
        time_sensitivity |-> FLit(market.time_sensitivity, 10),
        market_volatility |-> FLit(market.market_volatility, 10),
        price_adjustment_range |-> <<lo, hi>>,
        price_adjustment_steps |-> market.price_adjustment_steps,
        action_space_size |-> market.price_adjustment_steps,
        price_step |-> PriceStep(lo, hi, market.price_adjustment_steps),
        reward_weights |-> [profit |-> FLit(market.profit_weight, 10),
                            time |-> FLit(market.time_weight, 10)],
        category_stats |-> _load_market_data(stats_file),
        episode_step |-> 0,
        current_item |-> None,
        current_state |-> None]

(***************************************************************************)
(* MarketEnvironment: observation                                          *)
(***************************************************************************)

\* dict(**a, **b): b's entries update a key already present in place and are
\* appended otherwise.  A dict is the sequence of its <<key, value>> entries.
RECURSIVE DictMerge(_, _)
DictMerge(a, b) ==
    IF b = <<>> THEN a
    ELSE LET kv == Head(b)
             hit == {i \in 1..Len(a) : a[i][1] = kv[1]}
         IN DictMerge(IF hit = {} THEN Append(a, kv)
                      ELSE [a EXCEPT ![CHOOSE i \in hit : TRUE] = kv],
                      Tail(b))

\* len(dict)
DictLen(d) == Len(d)

\* dict[key]
DictGet(d, key) == d[CHOOSE i \in 1..Len(d) : d[i][1] = key][2]

\* category_stats.get(category_id, {}) is a dict (None when the file maps the
\* category to null, whose .get raises AttributeError)
StatsRaise(stats, category_id) ==
    category_id \in DOMAIN stats /\ IsNone(stats[category_id])

\* item.get(key, default)
ItemGet(item, key, default) == IF key \in DOMAIN item THEN item[key] ELSE default

\* A flag that is also set where the flag is that of the default category.
CategoryFlagOrDefault(category_id, flag_id) ==
    IF category_id = flag_id \/ flag_id = "9355" THEN FInt(1) ELSE FZero

\* _extract_item_features: 1.0 if category_id == "<flag_id>" else 0.0
CategoryFlag(category_id, flag_id) ==
    IF category_id = flag_id THEN FInt(1) ELSE FZero

\* _extract_item_features
_extract_item_features(self) ==
    LET item == self.current_item
        category_id == ItemGet(item, "category_id", "9355")
        price_mean == StatsGet(self.category_stats, category_id, "price_mean", FInt(500))
        price_std == StatsGet(self.category_stats, category_id, "price_std", FInt(200))
        normalized_price == IF FLess(FZero, price_std)
                            THEN FDiv(FSub(item.price, price_mean), price_std)
                            ELSE FZero
    IN <<<<"normalized_price", normalized_price>>,
         <<"condition_score",
           _condition_to_score(ItemGet(item, "condition", CondUsed))>>>>
       \o [i \in 1..Len(CategoryFlags) |->
              <<CategoryFlags[i][1], CategoryFlag(category_id, CategoryFlags[i][2])>>]

\* _extract_market_features
_extract_market_features(self) ==
    LET category_id == ItemGet(self.current_item, "category_id", "9355")
    IN <<<<"market_volatility", self.market_volatility>>,
         <<"avg_days_to_sell",
           FDiv(StatsGet(self.category_stats, category_id, "avg_days_to_sell", FInt(10)),
                FInt(30))>>,
         <<"price_std",
           FDiv(StatsGet(self.category_stats, category_id, "price_std", FInt(200)),
                FInt(1000))>>>>

\* _extract_time_features; clock is datetime.now() as [weekday, month]
_extract_time_features(clock) ==
    <<<<"day_of_week", FDiv(FInt(clock.weekday), FInt(6))>>,
      <<"month", FDiv(FInt(clock.month - 1), FInt(11))>>,
      <<"is_weekend", IF clock.weekday >= 5 THEN FInt(1) ELSE FZero>>>>

\* _create_state: [exc, state]; exc names the exception raised, "none" if none
_create_state(self, clock) ==
    IF IsNone(self.current_item)
    THEN [exc |-> "AttributeError", state |-> None]
    ELSE IF StatsRaise(self.category_stats,
                       ItemGet(self.current_item, "category_id", "9355"))
    THEN [exc |-> "AttributeError", state |-> None]
    ELSE IF self.max_steps = 0
    THEN [exc |-> "ZeroDivisionError", state |-> None]
    ELSE [exc |-> "none",
          state |-> DictMerge(DictMerge(DictMerge(_extract_item_features(self),
                                                  _extract_market_features(self)),
                                        _extract_time_features(clock)),
                              <<<<"step", FDiv(FInt(self.episode_step),
                                               FInt(self.max_steps))>>>>)]


(***************************************************************************)
(* MarketEnvironment: the step                                             *)
(***************************************************************************)

\* A version of _action_to_adjustment that does not clamp the action index.
ActionToAdjustmentUnclamped(self, action) ==
    FAdd(self.price_adjustment_range[1], FMul(FInt(action), self.price_step))

\* _action_to_adjustment
_action_to_adjustment(self, action) ==
    LET a == Max(0, Min(action, self.action_space_size - 1))
    IN FAdd(self.price_adjustment_range[1], FMul(FInt(a), self.price_step))

\* random.uniform(a, b) for the outcome r of random.random()
Uniform(a, b, r) == FAdd(a, FMul(FSub(b, a), r))

\* the largest float below 1.0: 1 - 2^-53
OneMinusUlp == [sg |-> 1, m |-> <<32767, 32767, 32767, 255>>, e |-> -53]

\* random.random() returns a float in [0.0, 1.0): the outcomes considered
RandomOutcomes == {FZero, OneMinusUlp}

\* np.exp(x) is not computed: the outcomes considered, by the sign of x
ExpOutcomes(x) ==
    IF FIsZero(x) THEN {FInt(1)}
    ELSE IF x.sg < 0 THEN {FLit(1, 2)}
    ELSE {FInt(2)}

\* max(a, b) and min(a, b) of Python: the first argument unless the second
\* is strictly greater (smaller)
FMax(a, b) == IF FLess(a, b) THEN b ELSE a
FMin(a, b) == IF FLess(b, a) THEN b ELSE a

\* price_deviation of _calculate_market_response
PriceDeviation(self) ==
    LET category_id == ItemGet(self.current_item, "category_id", "9355")
        price_mean == StatsGet(self.category_stats, category_id, "price_mean", FInt(500))
        price_std == StatsGet(self.category_stats, category_id, "price_std", FInt(200))
    IN IF FLess(FZero, price_std)
       THEN FDiv(FSub(self.current_item.price, price_mean), price_std)
       ELSE FZero

\* A market response whose expected_days has no floor.
MarketResponseNoFloor(self, price_deviation, expv, r1, r2) ==
    LET category_id == ItemGet(self.current_item, "category_id", "9355")
        avg_days_to_sell ==
            StatsGet(self.category_stats, category_id, "avg_days_to_sell", FInt(10))
        std_days_to_sell ==
            StatsGet(self.category_stats, category_id, "std_days_to_sell", FInt(5))
        sigmoid == FDiv(FInt(1), FAdd(FInt(1), expv))
        sale_probability ==
            FMin(FInt(1),
                 FMax(FLit(1, 100),
                      FAdd(sigmoid,
                           FMul(Uniform(FLit(-1, 10), FLit(1, 10), r1),
                                self.market_volatility))))
        days == FMul(avg_days_to_sell,
                     FAdd(FInt(1), FMul(self.time_sensitivity, price_deviation)))
    IN [sale_probability |-> sale_probability,
        expected_days |->
            FAdd(days,
                 FMul(FMul(Uniform(FInt(-1), FInt(1), r2), std_days_to_sell),
                      self.market_volatility))]

\* _calculate_market_response, given price_deviation, the value expv of
\* np.exp(price_sensitivity * price_deviation) and the outcomes r1, r2 of the
\* two random.random() calls
_calculate_market_response(self, price_deviation, expv, r1, r2) ==
    LET category_id == ItemGet(self.current_item, "category_id", "9355")
        avg_days_to_sell ==
            StatsGet(self.category_stats, category_id, "avg_days_to_sell", FInt(10))
        std_days_to_sell ==
            StatsGet(self.category_stats, category_id, "std_days_to_sell", FInt(5))
        sigmoid == FDiv(FInt(1), FAdd(FInt(1), expv))
        sale_probability ==
            FMin(FInt(1),
                 FMax(FLit(1, 100),
                      FAdd(sigmoid,
                           FMul(Uniform(FLit(-1, 10), FLit(1, 10), r1),
                                self.market_volatility))))
        days == FMul(avg_days_to_sell,
                     FAdd(FInt(1), FMul(self.time_sensitivity, price_deviation)))
        expected_days ==
            FMax(FInt(1),
                 FAdd(days,
                      FMul(FMul(Uniform(FInt(-1), FInt(1), r2), std_days_to_sell),
                           self.market_volatility)))
    IN [sale_probability |-> sale_probability, expected_days |-> expected_days]

\* A total reward that takes the time penalty whole.
TotalRewardWholePenalty(normalized_profit, sale_probability, time_penalty, weights) ==
    FAdd(FMul(FMul(normalized_profit, sale_probability), weights.profit),
         FNeg(time_penalty))

\* _calculate_reward: profit_reward = normalized_profit * sale_probability *
\* reward_weights["profit"], time_reward = -time_penalty *
\* reward_weights["time"], total_reward = profit_reward + time_reward
TotalReward(normalized_profit, sale_probability, time_penalty, weights) ==
    FAdd(FMul(FMul(normalized_profit, sale_probability), weights.profit),
         FMul(FNeg(time_penalty), weights.time))

\* A reward whose time penalty falls back on the divisor 1.
RewardFallbackOne(self, original_price, new_price, sale_probability, expected_days) ==
    LET estimated_cost == FMul(original_price, FLit(7, 10))
        profit == FSub(new_price, estimated_cost)
        normalized_profit == IF FLess(FZero, original_price)
                             THEN FDiv(profit, original_price)
                             ELSE FZero
        category_id == ItemGet(self.current_item, "category_id", "9355")
        avg_days == StatsGet(self.category_stats, category_id, "avg_days_to_sell", FInt(10))
        time_penalty == IF FLess(FZero, avg_days)
                        THEN FDiv(expected_days, avg_days)
                        ELSE expected_days
    IN TotalReward(normalized_profit, sale_probability, time_penalty,
                   self.reward_weights)

\* _calculate_reward
_calculate_reward(self, original_price, new_price, sale_probability, expected_days) ==
    LET estimated_cost == FMul(original_price, FLit(7, 10))
        profit == FSub(new_price, estimated_cost)
        normalized_profit == IF FLess(FZero, original_price)
                             THEN FDiv(profit, original_price)
                             ELSE FZero
        category_id == ItemGet(self.current_item, "category_id", "9355")
        avg_days == StatsGet(self.category_stats, category_id, "avg_days_to_sell", FInt(10))
        time_penalty == IF FLess(FZero, avg_days)
                        THEN FDiv(expected_days, avg_days)
                        ELSE FDiv(expected_days, FInt(10))
    IN TotalReward(normalized_profit, sale_probability, time_penalty,
                   self.reward_weights)


(***************************************************************************)
(* ReplayBuffer                                                            *)
(***************************************************************************)

\* Experience = namedtuple('Experience', [state, action, reward, next_state, done])
Experience(state, action, reward, next_state, done) ==
    [state |-> state, action |-> action, reward |-> reward,
     next_state |-> next_state, done |-> done]

\* A deque append that refuses the new element once full (keeps the oldest).
DequeAppendKeepOldest(buf, maxlen, e) ==
    IF Len(buf) >= maxlen THEN buf ELSE Append(buf, e)

\* collections.deque(maxlen=capacity).append(e): once the deque is full the
\* element at the left end (the oldest) is discarded to make room.
DequeAppend(buf, maxlen, e) ==
    IF maxlen = 0 THEN <<>>
    ELSE IF Len(buf) = maxlen THEN Append(Tail(buf), e)
    ELSE Append(buf, e)

\* ReplayBuffer.add
BufferAdd(buf, maxlen, state, action, reward, next_state, done) ==
    DequeAppend(buf, maxlen, Experience(state, action, reward, next_state, done))

\* ReplayBuffer.__len__
BufferLen(buf) == Len(buf)

\* No buffer, no environment: the state of the objects a run does not build.
NoBuffer == memory = <<>> /\ buffer_size = 0 /\ added = <<>>
NoEnv ==
    /\ env = None /\ now = None /\ ret = None
    /\ steps_since_reset = 0 /\ seen_sizes = {}
NoAgent == agent = None /\ run = None

\* ReplayBuffer(capacity): an empty deque of the given maxlen.
InitBuf ==
    /\ buffer_size \in 0..MaxCapacity
    /\ memory = <<>>
    /\ added = <<>>
    /\ NoEnv
    /\ adjustments = <<>>
    /\ NoAgent

\* One call buffer.add(state, action, reward, next_state, done) with a tagged
\* transition.
Add ==
    /\ Len(added) < MaxAdds
    /\ \E tag \in 1..MaxTag, done \in BOOLEAN :
          /\ memory' = BufferAdd(memory, buffer_size, tag, 0, 0, tag, done)
          /\ added' = Append(added, Experience(tag, 0, 0, tag, done))
    /\ UNCHANGED <<buffer_size, envVars, adjVars, agentVars>>

NextBuf == Add

SpecBuf == InitBuf /\ [][NextBuf]_vars

(***************************************************************************)
(* MarketEnvironment: the operations                                       *)
(***************************************************************************)

Prefix(seq, n) == SubSeq(seq, 1, Min(n, Len(seq)))
Range(seq) == {seq[i] : i \in 1..Len(seq)}

\* datetime.now() as [weekday, month]: the times a run is executed at, a
\* Wednesday of November and a Saturday of December
Clock == {[weekday |-> 2, month |-> 11], [weekday |-> 5, month |-> 12]}

\* _generate_random_item for the outcomes of random.choice(categories),
\* random.choice(conditions) and the random.random() of random.uniform
_generate_random_item(category_id, condition, r) ==
    [condition |-> condition,
     price |-> Uniform(FInt(Row(PriceRange, category_id)[2]),
                       FInt(Row(PriceRange, category_id)[3]), r),
     category_id |-> category_id]

\* The market configs considered: the default with max_steps and
\* price_adjustment_steps overridden.
MarketConfigs ==
    {[DefaultMarketConfig EXCEPT !.max_steps = m, !.price_adjustment_steps = n] :
        m \in 1..MaxSteps, n \in 2..MaxActionSteps}

\* env = MarketEnvironment(config_path) with no category_stats.json
InitEnv ==
    /\ \E market \in MarketConfigs : env = MarketEnvironment(market, NoStatsFile)
    /\ now \in Clock
    /\ ret = [op |-> "__init__", exc |-> "none"]
    /\ steps_since_reset = 0
    /\ seen_sizes = {}
    /\ NoBuffer
    /\ adjustments = <<>>
    /\ NoAgent

\* A reset that puts the item in place and lets the step counter run on.
ResetItemKeepStep(self, item) == [self EXCEPT !.current_item = item]

\* reset: self.episode_step = 0, self.current_item = the item
ResetItem(self, item) == [self EXCEPT !.episode_step = 0, !.current_item = item]

\* reset(item_data), once item is item_data or the item generated in its
\* place.  The call is recorded with the episode step it was made at and
\* whether there was a current item.
ResetWith(item) ==
      \E e1 \in {ResetItem(env, item)} :
      \E cs \in {_create_state(e1, now)} :
        IF cs.exc # "none"
        THEN /\ env' = e1
             /\ ret' = [op |-> "reset", exc |-> cs.exc]
             /\ UNCHANGED <<steps_since_reset, seen_sizes>>
        ELSE /\ env' = [e1 EXCEPT !.current_state = cs.state]
             /\ ret' = [op |-> "reset", exc |-> "none", state |-> cs.state,
                        at_step |-> env.episode_step,
                        had_item |-> ~IsNone(env.current_item)]
             /\ steps_since_reset' = 0
             /\ seen_sizes' = seen_sizes \cup {DictLen(cs.state)}

\* reset() with item_data = None, random.choice drawing from the first
\* categories of the category list and the first conditions of the condition
\* list, and random.random() from randoms
ResetCall(categories, conditions, randoms) ==
    \E category_id \in Range(Prefix(GeneratorCategories, categories)),
       condition \in Range(Prefix(Conditions, conditions)),
       r \in randoms :
      ResetWith(_generate_random_item(category_id, condition, r))

\* One call of reset
Reset ==
    /\ ResetCall(NumCategories, NumConditions, RandomOutcomes)
    /\ UNCHANGED <<now, bufVars, adjVars, agentVars>>

\* An episode-end test that holds at the max_steps-th step only.
EpisodeDoneAtCap(self) == self.episode_step = self.max_steps

\* A version of the episode-end test that is one step late.
EpisodeDoneLate(self) == self.episode_step > self.max_steps

\* step: done = self.episode_step >= self.max_steps
EpisodeDone(self) == self.episode_step >= self.max_steps

\* step(action) once the price is updated: e2 is the environment after
\* "self.current_item['price'] = new_price"
StepPriced(action, e2, price_adjustment, original_price, new_price, randoms) ==
    \E cs \in {_create_state(e2, now)} :
      IF cs.exc # "none"
      THEN /\ env' = e2
           /\ ret' = [op |-> "step", action |-> action, exc |-> cs.exc]
           /\ UNCHANGED <<steps_since_reset, seen_sizes>>
      ELSE
        \E price_deviation \in {PriceDeviation(e2)} :
        \E expv \in ExpOutcomes(FMul(e2.price_sensitivity, price_deviation)),
           r1 \in randoms, r2 \in randoms :
        \E mr \in {_calculate_market_response(e2, price_deviation, expv, r1, r2)} :
          /\ env' = [e2 EXCEPT !.current_state = cs.state]
          /\ ret' = [op |-> "step", action |-> action, exc |-> "none",
                     state |-> cs.state,
                     reward |-> _calculate_reward(e2, original_price, new_price,
                                                  mr.sale_probability,
                                                  mr.expected_days),
                     done |-> EpisodeDone(e2),
                     info |-> [original_price |-> original_price,
                               new_price |-> new_price,
                               price_adjustment |-> price_adjustment,
                               sale_probability |-> mr.sale_probability,
                               expected_days |-> mr.expected_days,
                               step |-> e2.episode_step]]
          /\ steps_since_reset' = steps_since_reset + 1
          /\ seen_sizes' = seen_sizes \cup {DictLen(cs.state)}

\* A price update that adds the adjustment to the price.
NewPriceAdditive(original_price, price_adjustment) ==
    FAdd(original_price, price_adjustment)

\* step: new_price = original_price * (1 + price_adjustment)
NewPrice(original_price, price_adjustment) ==
    FMul(original_price, FAdd(FInt(1), price_adjustment))

\* step(action), random.random() drawing from randoms
StepCall(action, randoms) ==
    \E e1 \in {[env EXCEPT !.episode_step = @ + 1]} :
      IF IsNone(e1.current_item)
      THEN /\ env' = e1
           /\ ret' = [op |-> "step", action |-> action, exc |-> "TypeError"]
           /\ UNCHANGED <<steps_since_reset, seen_sizes>>
      ELSE
        \E price_adjustment \in {_action_to_adjustment(e1, action)} :
        \E new_price \in {NewPrice(e1.current_item.price, price_adjustment)} :
          StepPriced(action, [e1 EXCEPT !.current_item.price = new_price],
                     price_adjustment, e1.current_item.price, new_price, randoms)

\* One call of step: any action index from one below the valid range to one
\* above it, up to ExtraSteps calls after the episode is done.
Step ==
    /\ steps_since_reset < env.max_steps + ExtraSteps
    /\ env.episode_step < env.max_steps + ExtraSteps
    /\ \E action \in -1..env.action_space_size : StepCall(action, RandomOutcomes)
    /\ UNCHANGED <<now, bufVars, adjVars, agentVars>>

\* get_state_space_size()
GetStateSpaceSize ==
    /\ \E cs \in {_create_state(env, now)} :
         IF cs.exc # "none"
         THEN /\ ret' = [op |-> "get_state_space_size", exc |-> cs.exc]
              /\ UNCHANGED seen_sizes
         ELSE /\ ret' = [op |-> "get_state_space_size", exc |-> "none",
                         value |-> DictLen(cs.state)]
              /\ seen_sizes' = seen_sizes \cup {DictLen(cs.state)}
    /\ UNCHANGED <<env, now, steps_since_reset, bufVars, adjVars, agentVars>>

NextEnv ==
    \/ Reset
    \/ Step
    \/ GetStateSpaceSize

SpecEnv == InitEnv /\ [][NextEnv]_vars

\* get_state_feature_names()
GetStateFeatureNames ==
    /\ \E cs \in {_create_state(env, now)} :
         ret' = IF cs.exc # "none"
                THEN [op |-> "get_state_feature_names", exc |-> cs.exc]
                ELSE [op |-> "get_state_feature_names", exc |-> "none",
                      value |-> [i \in 1..Len(cs.state) |-> cs.state[i][1]]]
    /\ UNCHANGED <<env, now, steps_since_reset, seen_sizes, bufVars, adjVars,
                   agentVars>>

\* get_action_meanings(): the percentage of each action, before it is
\* formatted
GetActionMeanings ==
    /\ ret' = [op |-> "get_action_meanings", exc |-> "none",
               value |-> [i \in 1..env.action_space_size |->
                             FMul(_action_to_adjustment(env, i - 1), FInt(100))]]
    /\ UNCHANGED <<env, now, steps_since_reset, seen_sizes, bufVars, adjVars,
                   agentVars>>

\* One call of reset and one call of step with an action of the valid
\* range, for one outcome of the random draws
PlainReset ==
    /\ ResetCall(1, 1, {FZero})
    /\ UNCHANGED <<now, bufVars, adjVars, agentVars>>

PlainStep ==
    /\ steps_since_reset < env.max_steps + ExtraSteps
    /\ env.episode_step < env.max_steps + ExtraSteps
    /\ \E action \in 0..(env.action_space_size - 1) : StepCall(action, {FZero})
    /\ UNCHANGED <<now, bufVars, adjVars, agentVars>>

NextQueries ==
    \/ PlainReset
    \/ PlainStep
    \/ GetStateSpaceSize
    \/ GetStateFeatureNames
    \/ GetActionMeanings

SpecQueries == InitEnv /\ [][NextQueries]_vars

\* The statistics records considered for the laptop category: the mock
\* record with its price_std or 0, its avg_days_to_sell or 0, and a hundred
\* times its std_days_to_sell
MarketStats ==
    {[MockCategoryStats["9355"] EXCEPT !.price_std = price_std,
                                       !.avg_days_to_sell = avg_days,
                                       !.std_days_to_sell = FInt(520)] :
        price_std \in {FZero, MockCategoryStats["9355"].price_std},
        avg_days \in {FZero, MockCategoryStats["9355"].avg_days_to_sell}}

\* The market configs considered with them: two actions, the default
\* market_volatility or a hundred times as much, the default reward weights
\* or profit_weight = 1 and time_weight = 0
MarketSetups ==
    {[DefaultMarketConfig EXCEPT !.max_steps = 2, !.price_adjustment_steps = 2,
                                 !.market_volatility = sw[1],
                                 !.profit_weight = sw[2], !.time_weight = sw[3]] :
        sw \in {<<DefaultMarketConfig.market_volatility,
                  DefaultMarketConfig.profit_weight, DefaultMarketConfig.time_weight>>,
                <<100, DefaultMarketConfig.profit_weight,
                  DefaultMarketConfig.time_weight>>,
                <<DefaultMarketConfig.market_volatility, 10, 0>>}}

\* The items given to reset: a laptop for nothing, or for 1000
MarketItems ==
    {[condition |-> CondGood, price |-> price, category_id |-> "9355"] :
        price \in {FZero, FInt(1000)}}

\* env = MarketEnvironment(config_path) with a category_stats.json that holds
\* one of the records for the laptop category, or with a max_steps of 0
InitMarket ==
    /\ \/ \E market \in MarketSetups, record \in MarketStats :
            env = MarketEnvironment(market,
                      StatsFile([MockCategoryStats EXCEPT !["9355"] = record]))
       \/ env = MarketEnvironment([DefaultMarketConfig EXCEPT
                                      !.max_steps = 0,
                                      !.price_adjustment_steps = 2],
                                  NoStatsFile)
    /\ now = [weekday |-> 2, month |-> 11]
    /\ ret = [op |-> "__init__", exc |-> "none"]
    /\ steps_since_reset = 0
    /\ seen_sizes = {}
    /\ NoBuffer
    /\ adjustments = <<>>
    /\ NoAgent

\* One call reset(item_data)
MarketReset ==
    /\ \E item \in MarketItems : ResetWith(item)
    /\ UNCHANGED <<now, bufVars, adjVars, agentVars>>

\* One call step(action), up to the end of the episode
MarketStep ==
    /\ env.episode_step < Max(env.max_steps, 1)
    /\ \E action \in 0..(env.action_space_size - 1) :
         StepCall(action, RandomOutcomes)
    /\ UNCHANGED <<now, bufVars, adjVars, agentVars>>

NextMarket ==
    \/ MarketReset
    \/ MarketStep

SpecMarket == InitMarket /\ [][NextMarket]_vars

(***************************************************************************)
(* MarketEnvironment: the action table                                     *)
(***************************************************************************)

\* The configs considered for the action table: the default, and every
\* price_adjustment_range [lo, hi] in tenths with lo < hi, for each number of
\* steps from 2 up.
RangeConfigs ==
    {DefaultMarketConfig} \cup
    {[DefaultMarketConfig EXCEPT !.price_adjustment_range = <<lo, hi>>,
                                 !.price_adjustment_steps = n] :
        <<lo, hi, n>> \in {t \in (-MaxRangeTenths..MaxRangeTenths)
                                 \X (-MaxRangeTenths..MaxRangeTenths)
                                 \X (2..MaxRangeSteps) : t[1] < t[2]}}

\* env = MarketEnvironment(config_path) for one of the configs
InitAdj ==
    /\ \E market \in RangeConfigs : env = MarketEnvironment(market, NoStatsFile)
    /\ now = None
    /\ ret = None
    /\ steps_since_reset = 0
    /\ seen_sizes = {}
    /\ NoBuffer
    /\ adjustments = <<>>
    /\ NoAgent

\* env._action_to_adjustment(a) for the next action index a
ActionToAdjustment ==
    /\ Len(adjustments) < env.action_space_size
    /\ adjustments' =
          Append(adjustments, _action_to_adjustment(env, Len(adjustments)))
    /\ UNCHANGED <<bufVars, envVars, agentVars>>

NextAdj == ActionToAdjustment

SpecAdj == InitAdj /\ [][NextAdj]_vars

(***************************************************************************)
(* DQNAgent                                                                *)
(***************************************************************************)

\* _load_config: the "drl" section used when the config file cannot be read.
\* A decimal is given as <<numerator, denominator>>.  learning_rate only
\* scales the optimizer's step, which the model does not compute.
DefaultDrlParams ==
    [hidden_size |-> 128, buffer_size |-> 10000, batch_size |-> 64,
     gamma |-> <<99, 100>>, tau |-> <<1, 1000>>,
     update_every |-> 4, epsilon_start |-> <<1, 1>>,
     epsilon_min |-> <<1, 100>>, epsilon_decay |-> <<995, 1000>>]

\* The parameters of QNetwork in state_dict order, with their shapes:
\* nn.Linear(in, out) holds a weight of shape [out, in] and a bias [out].
ParamShapes(state_size, action_size, hidden_size) ==
    <<<<"fc1.weight", <<hidden_size, state_size>>>>,
      <<"fc1.bias", <<hidden_size>>>>,
      <<"fc2.weight", <<hidden_size, hidden_size>>>>,
      <<"fc2.bias", <<hidden_size>>>>,
      <<"fc3.weight", <<action_size, hidden_size>>>>,
      <<"fc3.bias", <<action_size>>>>>>

\* The value nn.Linear's random initialisation gives an entry of a tensor:
\* one value for each network of each agent
InitialData(origin) ==
    IF origin[2] = "local" THEN FLit(1 + origin[1], 4) ELSE FLit(-1 - origin[1], 8)

\* QNetwork(state_size, action_size, hidden_size): a tensor is its shape,
\* the random initialisation its values come from (origin), the number of
\* updates applied to them since and the value of one of its entries (data).
QNetwork(state_size, action_size, hidden_size, origin) ==
    [i \in 1..6 |->
        [name |-> ParamShapes(state_size, action_size, hidden_size)[i][1],
         shape |-> ParamShapes(state_size, action_size, hidden_size)[i][2],
         origin |-> origin, updates |-> 0, data |-> InitialData(origin)]]

\* DQNAgent(state_size, action_size, config_path) for a config whose "drl"
\* section is drl; seed names the random initialisation of the networks.
DQNAgent(state_size, action_size, drl, seed) ==
    [state_size |-> state_size,
     action_size |-> action_size,
     hidden_size |-> drl.hidden_size,
     qnetwork_local |->
         QNetwork(state_size, action_size, drl.hidden_size, <<seed, "local">>),
     qnetwork_target |->
         QNetwork(state_size, action_size, drl.hidden_size, <<seed, "target">>),
     optimizer |-> [origin |-> seed, steps |-> 0],
     batch_size |-> drl.batch_size,
     gamma |-> FLit(drl.gamma[1], drl.gamma[2]),
     tau |-> FLit(drl.tau[1], drl.tau[2]),
     update_every |-> drl.update_every,
     epsilon |-> FLit(drl.epsilon_start[1], drl.epsilon_start[2]),
     epsilon_min |-> FLit(drl.epsilon_min[1], drl.epsilon_min[2]),
     epsilon_decay |-> FLit(drl.epsilon_decay[1], drl.epsilon_decay[2]),
     t_step |-> 0]

\* torch.argmax: the index of the first maximal value
Argmax(action_values) ==
    (CHOOSE i \in 1..Len(action_values) :
        /\ \A j \in 1..Len(action_values) : action_values[j] <= action_values[i]
        /\ \A j \in 1..(i - 1) : action_values[j] < action_values[i]) - 1

\* An exploration test that exploits when the draw is below epsilon.
ExploitDrawBelow(draw, epsilon) == FLess(draw, epsilon)

\* act: random.random() > self.epsilon
ExploitDraw(draw, epsilon) == FLess(epsilon, draw)

\* act(state, eval_mode) for a state of state_len features, where
\* action_values is what the online network computes for it, draw the outcome
\* of random.random() and choice that of random.choice(range(action_size)).
\* The network rejects an input whose length is not state_size.
act(self, state_len, eval_mode, action_values, draw, choice) ==
    IF state_len # self.state_size
    THEN [exc |-> "RuntimeError", branch |-> "none", action |-> -1]
    ELSE IF eval_mode
    THEN [exc |-> "none", branch |-> "greedy", action |-> Argmax(action_values)]
    ELSE IF ExploitDraw(draw, self.epsilon)
    THEN [exc |-> "none", branch |-> "greedy", action |-> Argmax(action_values)]
    ELSE [exc |-> "none", branch |-> "random", action |-> choice]

\* save: the checkpoint dict handed to torch.save
Checkpoint(self) ==
    [qnetwork_local_state_dict |-> self.qnetwork_local,
     qnetwork_target_state_dict |-> self.qnetwork_target,
     optimizer_state_dict |-> self.optimizer,
     epsilon |-> self.epsilon,
     state_size |-> self.state_size,
     action_size |-> self.action_size,
     hidden_size |-> self.hidden_size]

\* nn.Module.load_state_dict(state_dict): every parameter whose shape agrees
\* is copied in place, and a RuntimeError is raised afterwards if any did not.
load_state_dict(net, state_dict) ==
    [net |-> [i \in 1..Len(net) |->
                 IF state_dict[i].shape = net[i].shape THEN state_dict[i]
                 ELSE net[i]],
     exc |-> IF \E i \in 1..Len(net) : state_dict[i].shape # net[i].shape
             THEN "RuntimeError" ELSE "none"]

\* A load that takes the networks and the optimizer but leaves epsilon.
LoadTargetKeepEpsilon(self, checkpoint, loaded) ==
    IF loaded.exc # "none"
    THEN [self |-> [self EXCEPT !.qnetwork_target = loaded.net], exc |-> loaded.exc]
    ELSE [self |-> [self EXCEPT !.qnetwork_target = loaded.net,
                                !.optimizer = checkpoint.optimizer_state_dict],
          exc |-> "none"]

\* load, from self.qnetwork_target.load_state_dict on: self has the online
\* network loaded
LoadTarget(self, checkpoint, loaded) ==
    IF loaded.exc # "none"
    THEN [self |-> [self EXCEPT !.qnetwork_target = loaded.net], exc |-> loaded.exc]
    ELSE [self |-> [self EXCEPT !.qnetwork_target = loaded.net,
                                !.optimizer = checkpoint.optimizer_state_dict,
                                !.epsilon = checkpoint.epsilon],
          exc |-> "none"]

\* load, from self.qnetwork_local.load_state_dict on
LoadLocal(self, checkpoint, loaded) ==
    IF loaded.exc # "none"
    THEN [self |-> [self EXCEPT !.qnetwork_local = loaded.net], exc |-> loaded.exc]
    ELSE LoadTarget([self EXCEPT !.qnetwork_local = loaded.net], checkpoint,
                    load_state_dict(self.qnetwork_target,
                                    checkpoint.qnetwork_target_state_dict))

\* No file at filepath
NoFile == [missing |-> TRUE]
IsMissing(file) == "missing" \in DOMAIN file

\* load(filepath): file is NoFile when os.path.exists(filepath) is false,
\* the checkpoint dict torch.load returns otherwise
load(self, file) ==
    IF IsMissing(file) THEN [self |-> self, exc |-> "none"]
    ELSE IF file.state_size # self.state_size \/ file.action_size # self.action_size
    THEN [self |-> self, exc |-> "none"]
    ELSE LoadLocal(self, file,
                   load_state_dict(self.qnetwork_local,
                                   file.qnetwork_local_state_dict))

\* self.optimizer.step(): the gradient step on the parameters of the online
\* network.  The gradients are not computed: stepped is the value the step
\* leaves in the entries.
OptimizerStep(net, stepped) ==
    [i \in 1..Len(net) |-> [net[i] EXCEPT !.updates = @ + 1, !.data = stepped]]

\* self.tau * local_data + (1.0 - self.tau) * target_data
SoftMix(tau, local_data, target_data) ==
    FAdd(FMul(tau, local_data), FMul(FSub(FInt(1), tau), target_data))

\* _soft_update: target_param.data.copy_(self.tau * local_param.data +
\* (1.0 - self.tau) * target_param.data) for the parameters in order.  The
\* value is computed once for the parameters that hold the same entries.
_soft_update(self) ==
    LET pair(i) == <<self.qnetwork_local[i].data, self.qnetwork_target[i].data>>
        mixed == [p \in {pair(i) : i \in 1..Len(self.qnetwork_target)} |->
                     SoftMix(self.tau, p[1], p[2])]
    IN  [self EXCEPT !.qnetwork_target =
            [i \in 1..Len(@) |->
                [@[i] EXCEPT !.updates = @ + 1, !.data = mixed[pair(i)]]]]

\* A learning update that decays epsilon with no floor.
LearnWithoutFloor(self, stepped) ==
    [_soft_update([self EXCEPT !.qnetwork_local = OptimizerStep(@, stepped),
                               !.optimizer.steps = @ + 1])
        EXCEPT !.epsilon = FMul(self.epsilon, self.epsilon_decay)]

\* A learning update that moves the target network before the gradient step.
LearnSoftUpdateFirst(self, stepped) ==
    [_soft_update(self)
        EXCEPT !.qnetwork_local = OptimizerStep(@, stepped),
               !.optimizer.steps = @ + 1,
               !.epsilon = FMax(self.epsilon_min,
                                FMul(self.epsilon, self.epsilon_decay))]

\* _learn, from self.optimizer.step() on: the gradient step on the online
\* network, the soft update of the target network, the decay of epsilon
_learn(self, stepped) ==
    [_soft_update([self EXCEPT !.qnetwork_local = OptimizerStep(@, stepped),
                               !.optimizer.steps = @ + 1])
        EXCEPT !.epsilon = FMax(self.epsilon_min,
                                FMul(self.epsilon, self.epsilon_decay))]

\* The epsilon_start values of the configs considered
EpsilonStarts == {<<0, 1>>, <<1, 2>>, <<1, 1>>}

\* The agents considered: every state, action and hidden size up to the
\* bounds, every epsilon_start
Agents ==
    {DQNAgent(s, a, [DefaultDrlParams EXCEPT !.hidden_size = h,
                                             !.epsilon_start = eps], 0) :
        s \in 1..MaxStateSize, a \in 1..MaxActionSize, h \in 1..MaxHiddenSize,
        eps \in EpsilonStarts}

\* The epsilon values of the checkpoint files considered
CheckpointEpsilons == {<<0, 1>>, <<1, 1>>}

\* The checkpoint files considered: those such agents save, their networks
\* initialised otherwise
SavedCheckpoints ==
    {Checkpoint(DQNAgent(s, a, [DefaultDrlParams EXCEPT !.hidden_size = h,
                                                        !.epsilon_start = eps], 1)) :
        s \in 1..MaxStateSize, a \in 1..MaxActionSize, h \in 1..MaxHiddenSize,
        eps \in CheckpointEpsilons}

\* agent = DQNAgent(state_size, action_size, config_path)
InitAgent ==
    /\ agent \in Agents
    /\ run = None
    /\ ret = [op |-> "__init__", exc |-> "none"]
    /\ env = None /\ now = None
    /\ steps_since_reset = 0 /\ seen_sizes = {}
    /\ NoBuffer
    /\ adjustments = <<>>

\* One call agent.act(state, eval_mode).  The network computes action values
\* only for a state of state_size features, random.random() is drawn only
\* when eval_mode is off, and random.choice only in the random branch.
Act ==
    /\ \E state_len \in 1..MaxStateSize, eval_mode \in BOOLEAN :
         \E action_values \in IF state_len = agent.state_size
                               THEN [1..agent.action_size -> 0..MaxQ]
                               ELSE {<<>>} :
           \E draw \in IF state_len = agent.state_size /\ ~eval_mode
                        THEN RandomOutcomes ELSE {None} :
             \E choice \in IF /\ state_len = agent.state_size /\ ~eval_mode
                               /\ ~ExploitDraw(draw, agent.epsilon)
                            THEN 0..(agent.action_size - 1) ELSE {-1} :
               \E out \in {act(agent, state_len, eval_mode, action_values, draw, choice)} :
                 ret' = [op |-> "act", eval_mode |-> eval_mode, draw |-> draw,
                         action_values |-> action_values, exc |-> out.exc,
                         branch |-> out.branch, action |-> out.action]
    /\ UNCHANGED <<agent, run, env, now, steps_since_reset, seen_sizes,
                   bufVars, adjVars>>

\* One call agent.load(filepath), the file missing or saved by another agent
Load ==
    /\ \E file \in {NoFile} \cup SavedCheckpoints :
         \E out \in {load(agent, file)} :
           /\ agent' = out.self
           /\ ret' = [op |-> "load", file |-> file, exc |-> out.exc,
                      before |-> agent]
    /\ UNCHANGED <<run, env, now, steps_since_reset, seen_sizes,
                   bufVars, adjVars>>

NextAgent ==
    \/ Act
    \/ Load

SpecAgent == InitAgent /\ [][NextAgent]_vars

(***************************************************************************)
(* DQNAgent: train and evaluate                                            *)
(***************************************************************************)

\* category_stats.json with the second category of the list mapped to null
NullCategoryStats ==
    [MockCategoryStats EXCEPT ![GeneratorCategories[2]] = None]

\* MarketEnvironment(**kwargs): __init__ accepts config_path only
MarketEnvironmentCall(kwargs, market, stats_file) ==
    IF kwargs \subseteq {"config_path"}
    THEN [exc |-> "none", self |-> MarketEnvironment(market, stats_file)]
    ELSE [exc |-> "TypeError", self |-> None]

\* the call in progress after an exception left it
Raised(call, exc) == [call EXCEPT !.pc = "raised", !.exc = exc]

\* np.mean, np.max and np.min of a non-empty list of floats
RECURSIVE FSum(_)
FSum(xs) == IF Len(xs) = 1 THEN xs[1] ELSE FAdd(FSum(SubSeq(xs, 1, Len(xs) - 1)), xs[Len(xs)])
Mean(xs) == FDiv(FSum(xs), FInt(Len(xs)))
MaxOf(xs) == xs[CHOOSE i \in 1..Len(xs) : \A j \in 1..Len(xs) : ~FLess(xs[i], xs[j])]
MinOf(xs) == xs[CHOOSE i \in 1..Len(xs) : \A j \in 1..Len(xs) : ~FLess(xs[j], xs[i])]

\* train and evaluate draw items of the first two categories, and the
\* random.random() of the environment gives 0.0
RunCategories == 2
RunRandomOutcomes == {FZero}

\* The configs of the runs: every max_steps, two price adjustments
RunConfigs ==
    {[DefaultMarketConfig EXCEPT !.max_steps = m, !.price_adjustment_steps = 2] :
        m \in 1..MaxSteps}

\* The agents of the runs: of the state size of the environment or of
\* another; with the default batch_size and update_every (no learning
\* within the run), learning in every step call from the second on, or
\* learning in every second step call from the fourth on
RunAgents ==
    {DQNAgent(s, 2, [DefaultDrlParams EXCEPT !.batch_size = b,
                                             !.update_every = u], 0) :
        s \in {Len(CategoryFlags) + 9, 1},
        <<b, u>> \in {<<DefaultDrlParams.batch_size, DefaultDrlParams.update_every>>,
                      <<1, 1>>, <<2, 2>>}}

\* agent = DQNAgent(state_size, action_size, config_path), idle
InitRun ==
    /\ agent \in RunAgents
    /\ memory = <<>> /\ buffer_size = DefaultDrlParams.buffer_size /\ added = <<>>
    /\ run = [pc |-> "idle"]
    /\ env = None
    /\ now \in Clock
    /\ ret = [op |-> "__init__", exc |-> "none"]
    /\ steps_since_reset = 0 /\ seen_sizes = {}
    /\ adjustments = <<>>

\* The start of train or evaluate (op), up to the episode loop: the
\* environment is built with the keyword arguments kwargs from the config
\* and stats files found.  max_steps is <<>> for None, <<n>> for n.
\* resets counts the env.reset calls made and env_steps the env.step calls
\* of each episode; saved lists the file names given to save, in call order.
RunStart(op, kwargs) ==
    /\ \E episodes \in 1..MaxEpisodes,
          max_steps \in {<<>>} \cup {<<k>> : k \in 0..MaxStepCap},
          save_freq \in {1, 2},
          market \in RunConfigs, stats_file \in {NoStatsFile, CorruptStatsFile,
                                         StatsFile(NullCategoryStats)} :
         \E made \in {MarketEnvironmentCall(kwargs, market, stats_file)} :
           /\ env' = made.self
           /\ run' = [op |-> op,
                      pc |-> IF made.exc # "none" THEN "raised" ELSE "reset",
                      exc |-> made.exc,
                      episodes |-> episodes, max_steps |-> max_steps,
                      save_freq |-> IF op = "train" THEN save_freq ELSE 0,
                      episode |-> 1, scores |-> <<>>,
                      state |-> None, action |-> 0, next_state |-> None,
                      reward |-> FZero, score |-> FZero, done |-> FALSE,
                      step |-> 0, files |-> <<>>, saved |-> <<>>,
                      result |-> None,
                      resets |-> 0, env_steps |-> <<>>]
    /\ ret' = [op |-> "__init__", exc |-> "none"]
    /\ steps_since_reset' = 0
    /\ seen_sizes' = {}
    /\ UNCHANGED <<now, agent, bufVars, adjVars>>

\* agent.train(episodes, max_steps, save_freq) is called
Train ==
    /\ run.pc = "idle"
    /\ RunStart("train", {"config_path"})

\* agent.evaluate(episodes, max_steps) is called
Evaluate ==
    /\ run.pc = "idle"
    /\ RunStart("evaluate", {"config_path", "evaluation"})

\* The head of the episode loop: state = env.reset(), score = 0, ...
RunReset ==
    /\ run.pc = "reset"
    /\ ResetCall(RunCategories, NumConditions, RunRandomOutcomes)
    /\ run' = IF ret'.exc # "none"
              THEN Raised([run EXCEPT !.resets = @ + 1], ret'.exc)
              ELSE [run EXCEPT !.pc = "act", !.state = ret'.state,
                               !.score = FZero, !.done = FALSE, !.step = 0,
                               !.resets = @ + 1,
                               !.env_steps = Append(@, 0)]
    /\ UNCHANGED <<now, agent, bufVars, adjVars>>

\* action = self.act(state) in train, self.act(state, eval_mode=True) in
\* evaluate
RunAct ==
    /\ run.pc = "act"
    /\ \E action_values \in [1..agent.action_size -> 0..MaxQ],
          draw \in RandomOutcomes, choice \in 0..(agent.action_size - 1) :
         \E out \in {act(agent, DictLen(run.state), run.op = "evaluate",
                         action_values, draw, choice)} :
           run' = IF out.exc # "none" THEN Raised(run, out.exc)
                  ELSE [run EXCEPT !.pc = "env_step", !.action = out.action]
    /\ UNCHANGED <<agent, envVars, bufVars, adjVars>>

\* next_state, reward, done, info = env.step(action)
RunEnvStep ==
    /\ run.pc = "env_step"
    /\ StepCall(run.action, RunRandomOutcomes)
    /\ run' = IF ret'.exc # "none"
              THEN Raised([run EXCEPT !.env_steps[Len(run.env_steps)] = @ + 1], ret'.exc)
              ELSE [run EXCEPT !.pc = "update", !.next_state = ret'.state,
                               !.reward = ret'.reward, !.done = ret'.done,
                               !.env_steps[Len(run.env_steps)] = @ + 1]
    /\ UNCHANGED <<now, agent, bufVars, adjVars>>

\* A learning test that is content with a buffer of batch_size transitions.
LearnDueAtBatchSize(self, occupancy) ==
    (self.t_step + 1) % self.update_every = 0 /\ occupancy >= self.batch_size

\* step: self.t_step == 0 and len(self.memory) > self.batch_size, for the
\* t_step before the call and the occupancy after the append
LearnDue(self, occupancy) ==
    (self.t_step + 1) % self.update_every = 0 /\ occupancy > self.batch_size

\* The value the gradient steps of the runs leave in the online network
RunSteppedData == {FLit(3, 8)}

\* A counter whose period is one step longer.
NextTStepLong(t_step, update_every) == (t_step + 1) % (update_every + 1)

\* step: self.t_step = (self.t_step + 1) % self.update_every
NextTStep(t_step, update_every) == (t_step + 1) % update_every

\* DQNAgent.step(state, action, reward, next_state, done); stepped is the
\* outcome of the gradient step, should the call learn
AgentStep(state, action, reward, next_state, done, stepped) ==
    /\ memory' = BufferAdd(memory, buffer_size, state, action, reward, next_state, done)
    /\ added' = Append(added, Experience(state, action, reward, next_state, done))
    /\ agent' = IF LearnDue(agent, BufferLen(memory'))
                THEN _learn([agent EXCEPT !.t_step = NextTStep(@, agent.update_every)],
                            stepped)
                ELSE [agent EXCEPT !.t_step = NextTStep(@, agent.update_every)]
    /\ UNCHANGED buffer_size

\* A max_steps test that lets one more step through.
StepCapReachedLate(step, max_steps) == max_steps # <<>> /\ step > max_steps[1]

\* max_steps is not None and step >= max_steps
StepCapReached(step, max_steps) == max_steps # <<>> /\ step >= max_steps[1]

\* A transition that is stored with the done flag the loop ends on.
TransitionDoneCapped(env_done, cap_reached) == env_done \/ cap_reached

\* train: the done handed to self.step is the one env.step returned; the
\* max_steps test that follows the call sets the loop's done only
TransitionDone(env_done, cap_reached) == env_done

\* The rest of the episode loop's body: self.step(...) in train, then
\* state = next_state, score += reward, step += 1 and the max_steps test
RunUpdate ==
    /\ run.pc = "update"
    /\ IF run.op = "train"
       THEN \E stepped \in RunSteppedData :
              AgentStep(run.state, run.action, run.reward, run.next_state,
                        TransitionDone(run.done,
                                       StepCapReached(run.step + 1, run.max_steps)),
                        stepped)
       ELSE UNCHANGED <<agent, bufVars>>
    /\ \E done \in {run.done \/ StepCapReached(run.step + 1, run.max_steps)} :
         run' = [run EXCEPT !.state = run.next_state,
                            !.score = FAdd(run.score, run.reward),
                            !.step = @ + 1,
                            !.done = done,
                            !.pc = IF done THEN "episode_end" ELSE "act"]
    /\ UNCHANGED <<envVars, adjVars>>

\* save(filename): models/<filename> holds the checkpoint
save(files, filename, self) == DictMerge(files, <<<<filename, Checkpoint(self)>>>>)

\* A periodic save that falls on the first episode of every save_freq.
SaveDueFirst(episode, save_freq) == (episode - 1) % save_freq = 0

\* train: episode % save_freq == 0
SaveDue(episode, save_freq) == episode % save_freq = 0

\* save returns os.path.join(self.model_dir, filename)
SavePath(filename) == <<"models", filename>>

\* After the episode loop: scores.append(score), the periodic save of train
RunEpisodeEnd ==
    /\ run.pc = "episode_end"
    /\ run' = [run EXCEPT
                 !.scores = Append(@, run.score),
                 !.files = IF run.op = "train" /\ SaveDue(run.episode, run.save_freq)
                           THEN save(@, <<"dqn_model_episode", run.episode>>, agent)
                           ELSE @,
                 !.saved = IF run.op = "train" /\ SaveDue(run.episode, run.save_freq)
                           THEN Append(@, <<"dqn_model_episode", run.episode>>)
                           ELSE @,
                 !.episode = @ + 1,
                 !.pc = IF run.episode + 1 <= run.episodes THEN "reset" ELSE "finish"]
    /\ UNCHANGED <<agent, envVars, bufVars, adjVars>>

\* After the last episode: the final save of train, the statistics returned
RunFinish ==
    /\ run.pc = "finish"
    /\ run' = [run EXCEPT
                 !.pc = "returned",
                 !.files = IF run.op = "train"
                           THEN save(@, <<"dqn_model_final">>, agent) ELSE @,
                 !.saved = IF run.op = "train"
                           THEN Append(@, <<"dqn_model_final">>) ELSE @,
                 !.result =
                     IF run.op = "train"
                     THEN [episodes |-> run.episodes,
                           final_epsilon |-> agent.epsilon,
                           avg_score |-> Mean(run.scores),
                           max_score |-> MaxOf(run.scores),
                           min_score |-> MinOf(run.scores),
                           model_path |-> SavePath(<<"dqn_model_final">>)]
                     ELSE [episodes |-> run.episodes,
                           avg_score |-> Mean(run.scores),
                           max_score |-> MaxOf(run.scores),
                           min_score |-> MinOf(run.scores)]]
    /\ UNCHANGED <<agent, envVars, bufVars, adjVars>>

NextRun ==
    \/ Train
    \/ Evaluate
    \/ RunReset
    \/ RunAct
    \/ RunEnvStep
    \/ RunUpdate
    \/ RunEpisodeEnd
    \/ RunFinish

SpecRun == InitRun /\ [][NextRun]_vars

(***************************************************************************)
(* reset() over every item it can synthesize                               *)
(***************************************************************************)

\* One call of reset, random.choice drawing from the first categories of
\* the category list and the whole condition list
ResetAny ==
    /\ ResetCall(ResetCategories, Len(Conditions), RandomOutcomes)
    /\ UNCHANGED <<now, bufVars, adjVars, agentVars>>

NextReset == ResetAny

SpecReset == InitEnv /\ [][NextReset]_vars

(***************************************************************************)
(* Episodes over every category reset() can draw                           *)
(***************************************************************************)

\* The environment of the longest episodes considered, on a Wednesday
InitFlags == InitEnv /\ env.max_steps = MaxSteps /\ now.weekday = 2

\* reset() with random.choice drawing from the whole category list
FlagReset ==
    /\ ResetCall(Len(GeneratorCategories), 1, {FZero})
    /\ UNCHANGED <<now, bufVars, adjVars, agentVars>>

\* step(action) of an episode that is not over
FlagStep ==
    /\ ret.exc = "none"
    /\ env.episode_step < env.max_steps
    /\ \E action \in 0..(env.action_space_size - 1) : StepCall(action, {FZero})
    /\ UNCHANGED <<now, bufVars, adjVars, agentVars>>

NextFlags == FlagReset \/ FlagStep

SpecFlags == InitFlags /\ [][NextFlags]_vars

(***************************************************************************)
(* step calls after the end of the episode                                 *)
(***************************************************************************)

\* The environments of every max_steps with two price adjustments (-0.3 and
\* 0.3) or three (-0.3, 0.0 and 0.3), on a Wednesday
InitOverrun ==
    /\ \E m \in 1..MaxSteps, n \in {2, 3} :
         env = MarketEnvironment([DefaultMarketConfig EXCEPT
                                      !.max_steps = m, !.price_adjustment_steps = n],
                                 NoStatsFile)
    /\ now \in {t \in Clock : t.weekday = 2}
    /\ ret = [op |-> "__init__", exc |-> "none"]
    /\ steps_since_reset = 0
    /\ seen_sizes = {}
    /\ NoBuffer
    /\ adjustments = <<>>
    /\ NoAgent

\* step(action) with an action of the valid range, up to OverrunSteps calls
\* after the one that returned done = True
OverrunStep ==
    /\ env.episode_step < env.max_steps + OverrunSteps
    /\ \E action \in 0..(env.action_space_size - 1) : StepCall(action, {FZero})
    /\ UNCHANGED <<now, bufVars, adjVars, agentVars>>

NextOverrun == PlainReset \/ OverrunStep

SpecOverrun == InitOverrun /\ [][NextOverrun]_vars

(***************************************************************************)
(* DQNAgent: step calls and the learning update                            *)
(***************************************************************************)

\* ReplayBuffer.sample(batch_size): random.sample draws
\* min(len(buffer), batch_size) distinct positions of the buffer, in any order
Samples(buf, batch_size) ==
    {s \in [1..Min(Len(buf), batch_size) -> 1..Len(buf)] :
        \A i, j \in DOMAIN s : s[i] = s[j] => i = j}

\* A target value bootstrapped from the online network.
QTargetOnline(e, gamma, next_values) ==
    FAdd(e.reward, FMul(FMul(gamma, MaxOf(next_values.local)),
                        FSub(FInt(1), FInt(IF e.done THEN 1 ELSE 0))))

\* _learn: rewards + gamma * qnetwork_target(next_states).max(1)[0] *
\* (1 - dones), for one experience of the batch.  next_values holds the
\* action values each network gives at the experience's next_state.
QTarget(e, gamma, next_values) ==
    FAdd(e.reward, FMul(FMul(gamma, MaxOf(next_values.target)),
                        FSub(FInt(1), FInt(IF e.done THEN 1 ELSE 0))))

\* One call agent.step(state, action, reward, next_state, done) with
\* <<action, reward, done>> of transitions, up to max_calls calls; the
\* networks' action values lie in q_values.  A state is named by the number
\* of the call that left it.  ret tells what the call did: the batch it
\* sampled, the action values at the next states and the target values.
AgentStepCall(transitions, q_values, stepped_data, max_calls) ==
    /\ Len(added) < max_calls
    /\ \E t \in transitions, stepped \in stepped_data :
         /\ AgentStep(Len(added), t[1], t[2], Len(added) + 1, t[3], stepped)
         /\ IF LearnDue(agent, BufferLen(memory'))
            THEN \E sample \in Samples(memory', agent.batch_size) :
                   \E next_values \in
                        [DOMAIN sample ->
                            [local : [1..agent.action_size -> q_values],
                             target : [1..agent.action_size -> q_values]]] :
                     ret' = [op |-> "step", exc |-> "none", learned |-> TRUE,
                             experiences |-> [i \in DOMAIN sample |-> memory'[sample[i]]],
                             next_values |-> next_values,
                             q_targets |->
                                 [i \in DOMAIN sample |->
                                     QTarget(memory'[sample[i]], agent.gamma,
                                             next_values[i])]]
            ELSE ret' = [op |-> "step", exc |-> "none", learned |-> FALSE]
    /\ UNCHANGED <<run, env, now, steps_since_reset, seen_sizes, adjVars>>

\* The epsilon_start, epsilon_min and epsilon_decay of the configs
\* considered: the defaults, epsilon_start at or a decay above epsilon_min,
\* a decay of 1, and configs with epsilon_start below epsilon_min or
\* a decay above 1
Schedules ==
    {<<<<1, 1>>, <<1, 100>>, <<995, 1000>>>>,
     <<<<1, 100>>, <<1, 100>>, <<995, 1000>>>>,
     <<<<1, 1>>, <<1, 2>>, <<1, 2>>>>,
     <<<<1, 50>>, <<1, 100>>, <<1, 2>>>>,
     <<<<1, 10>>, <<1, 100>>, <<1, 1>>>>,
     <<<<3, 10>>, <<1, 100>>, <<1, 3>>>>,
     <<<<0, 1>>, <<1, 100>>, <<995, 1000>>>>,
     <<<<1, 10>>, <<1, 100>>, <<2, 1>>>>}

\* The agents of the exploration schedule: learning in every step call from
\* the second on, or in every second one; with the default tau and, for the
\* default schedule, with a tau of 0, 1/2 or 1
ScheduleAgents ==
    {DQNAgent(1, 2, [DefaultDrlParams EXCEPT !.batch_size = 1,
                                             !.update_every = u,
                                             !.epsilon_start = sch[1],
                                             !.epsilon_min = sch[2],
                                             !.epsilon_decay = sch[3]], 0) :
        u \in 1..2, sch \in Schedules}
    \cup {DQNAgent(1, 2, [DefaultDrlParams EXCEPT !.batch_size = 1,
                                                  !.update_every = 1,
                                                  !.tau = tau], 0) :
        tau \in {<<0, 1>>, <<1, 2>>, <<1, 1>>}}

InitSchedule ==
    /\ agent \in ScheduleAgents
    /\ memory = <<>> /\ buffer_size = DefaultDrlParams.buffer_size /\ added = <<>>
    /\ run = None
    /\ ret = [op |-> "__init__", exc |-> "none"]
    /\ env = None /\ now = None
    /\ steps_since_reset = 0 /\ seen_sizes = {}
    /\ adjustments = <<>>

\* The values the gradient steps considered leave in the online network
ScheduleSteppedData == {FLit(3, 8), FLit(-7, 10)}

ScheduleStep ==
    AgentStepCall({<<0, FZero, FALSE>>}, {FZero}, ScheduleSteppedData,
                  MaxStepCalls)

NextSchedule ==
    \/ Act
    \/ ScheduleStep

SpecSchedule == InitSchedule /\ [][NextSchedule]_vars

\* The rewards and the action values of the learning updates considered
LearnRewards == {FLit(-5, 2), FLit(101, 10)}
LearnQValues == {FLit(-3, 2), FLit(9, 4)}

\* The agents of the learning updates: learning in every step call from the
\* second on, with the default gamma or another
LearnAgents ==
    {DQNAgent(1, 2, [DefaultDrlParams EXCEPT !.batch_size = 1,
                                             !.update_every = 1,
                                             !.gamma = g], 0) :
        g \in {DefaultDrlParams.gamma, <<1, 2>>}}

InitLearn ==
    /\ agent \in LearnAgents
    /\ memory = <<>> /\ buffer_size = DefaultDrlParams.buffer_size /\ added = <<>>
    /\ run = None
    /\ ret = [op |-> "__init__", exc |-> "none"]
    /\ env = None /\ now = None
    /\ steps_since_reset = 0 /\ seen_sizes = {}
    /\ adjustments = <<>>

LearnStep ==
    AgentStepCall((0..1) \X LearnRewards \X BOOLEAN, LearnQValues,
                  RunSteppedData, MaxLearnCalls)

NextLearn == LearnStep

SpecLearn == InitLearn /\ [][NextLearn]_vars

(***************************************************************************)
(* Properties                                                              *)
(***************************************************************************)

\* The last k elements of a sequence.
LastK(s, k) == SubSeq(s, Len(s) - k + 1, Len(s))

\* C1: after n add calls a buffer of capacity C holds min(n, C) transitions,
\* and they are the most recently added ones, in insertion order.
C1_BufferKeepsNewest ==
    /\ BufferLen(memory) = Min(Len(added), buffer_size)
    /\ memory = LastK(added, Min(Len(added), buffer_size))

\* C1 witness: more transitions were added than the capacity holds, so the
\* oldest have been evicted.
C1_Witness ==
    /\ buffer_size >= 2
    /\ Len(added) > buffer_size + 1
    /\ added[1] # added[Len(added)]

\* C2: with max_steps = M, the k-th step call after reset() returns
\* done = False for k < M and done = True for k = M, whatever the action.
C2_DoneOnLastStep ==
    (ret.op = "step" /\ ret.exc = "none" /\ steps_since_reset <= env.max_steps)
        => (ret.done <=> steps_since_reset = env.max_steps)

\* C2 witness: the last step of an episode of MaxSteps steps returned done.
C2_Witness ==
    /\ ret.op = "step" /\ ret.exc = "none"
    /\ env.max_steps = MaxSteps
    /\ steps_since_reset = MaxSteps
    /\ ret.done

\* C3 as stated: get_state_space_size() returns a number at every point of
\* the instance's life, and that number and the length of every state that
\* reset() and step() returned are one and the same.
C3_StateSizeConstant ==
    /\ ret.op = "get_state_space_size" => ret.exc = "none"
    /\ Cardinality(seen_sizes) <= 1

\* C9: step accepts an action index outside 0..action_space_size - 1 and
\* adjusts the price as for the nearest index inside: 0 for a negative
\* index, action_space_size - 1 for one too large.
C9_StepClampsAction ==
    (/\ ret.op = "step"
     /\ ~IsNone(env.current_item)
     /\ (ret.action < 0 \/ ret.action >= env.action_space_size))
        => /\ ret.exc = "none"
           /\ ret.info.price_adjustment =
                  _action_to_adjustment(env, IF ret.action < 0 THEN 0
                                             ELSE env.action_space_size - 1)

\* C9 witness: a step with an index above the range went through.
C9_Witness ==
    /\ ret.op = "step" /\ ret.exc = "none"
    /\ ret.action = env.action_space_size
    /\ env.action_space_size = MaxActionSteps

FAbs(a) == IF a.sg < 0 THEN FNeg(a) ELSE a

\* 2^-52
EndpointTolerance == [sg |-> 1, m |-> <<1>>, e |-> -52]

\* the environment is the one built from the default config
IsDefaultRange ==
    /\ env.price_adjustment_range = <<FLit(-3, 10), FLit(3, 10)>>
    /\ env.action_space_size = 10

\* C10, amended: action 0 maps to lo exactly, the adjustments are strictly
\* increasing in the action index, and action N - 1 maps to hi up to the
\* rounding of the float arithmetic (less than 2^-52 away), exactly so for
\* the default range [-0.3, 0.3] with 10 steps.
C10_AdjustmentTable ==
    /\ Len(adjustments) >= 1 => adjustments[1] = env.price_adjustment_range[1]
    /\ \A a \in 2..Len(adjustments) : FLess(adjustments[a - 1], adjustments[a])
    /\ Len(adjustments) = env.action_space_size =>
          /\ FLess(FAbs(FSub(adjustments[Len(adjustments)],
                              env.price_adjustment_range[2])),
                    EndpointTolerance)
          /\ IsDefaultRange =>
                adjustments[Len(adjustments)] = env.price_adjustment_range[2]

\* C10 witness: the whole table of a range of MaxRangeSteps actions was
\* computed and its last entry is not the float hi.
C10_Witness ==
    /\ env.action_space_size = MaxRangeSteps
    /\ Len(adjustments) = env.action_space_size
    /\ adjustments[Len(adjustments)] # env.price_adjustment_range[2]

\* C10 as stated: action 0 maps to lo, action N - 1 maps to hi, and the
\* adjustments are strictly increasing.
C10_EndpointsExact ==
    Len(adjustments) = env.action_space_size =>
        /\ adjustments[1] = env.price_adjustment_range[1]
        /\ adjustments[Len(adjustments)] = env.price_adjustment_range[2]
        /\ \A a \in 2..Len(adjustments) :
              FLess(adjustments[a - 1], adjustments[a])

\* C4 as stated: evaluate does not raise, and when it returns every episode
\* has run and the statistics hold avg_score, max_score and min_score.
C4_EvaluateReturnsStats ==
    run.pc # "idle" /\ run.op = "evaluate" =>
        /\ run.pc # "raised"
        /\ run.pc = "returned" =>
              /\ Len(run.scores) = run.episodes
              /\ {"avg_score", "max_score", "min_score"} \subseteq DOMAIN run.result

\* C5 as stated: load of a checkpoint whose state_size, action_size or
\* hidden_size is not the agent's does not raise and leaves the agent as it
\* was.
C5_MismatchedLoadIsNoOp ==
    (/\ ret.op = "load"
     /\ ~IsMissing(ret.file)
     /\ \/ ret.file.state_size # ret.before.state_size
        \/ ret.file.action_size # ret.before.action_size
        \/ ret.file.hidden_size # ret.before.hidden_size)
        => ret.exc = "none" /\ agent = ret.before

\* C6 as stated: train does not raise when an episode fails.
C6_TrainSurvivesEpisode ==
    run.pc # "idle" /\ run.op = "train" => run.pc # "raised"

\* C7 as stated: with epsilon = 0.0 and eval_mode = False, act takes the
\* greedy branch and returns the argmax of the action values, whatever the
\* draw.
C7_GreedyAtEpsilonZero ==
    (/\ ret.op = "act" /\ ret.exc = "none"
     /\ ~ret.eval_mode
     /\ agent.epsilon = FZero)
        => ret.branch = "greedy" /\ ret.action = Argmax(ret.action_values)

\* C8: with epsilon = 1.0 and eval_mode = False, act takes the random branch
\* whatever the draw, and the action is in 0..action_size - 1.
C8_RandomAtEpsilonOne ==
    (/\ ret.op = "act" /\ ret.exc = "none"
     /\ ~ret.eval_mode
     /\ agent.epsilon = FInt(1))
        => ret.branch = "random" /\ ret.action \in 0..(agent.action_size - 1)

\* C8 witness: at epsilon = 1.0 the largest draw there is gave an action that
\* is not the argmax.
C8_Witness ==
    /\ ret.op = "act" /\ ret.exc = "none"
    /\ ~ret.eval_mode
    /\ agent.epsilon = FInt(1)
    /\ ret.draw = OneMinusUlp
    /\ ret.action # Argmax(ret.action_values)

\* C11: load of a checkpoint saved by an agent of the same state_size,
\* action_size and hidden_size does not raise and leaves the agent with the
\* saved online parameters, target parameters and epsilon; the action values
\* that act computes in eval mode are those of the saved online network.
C11_LoadRestoresSaved ==
    (/\ ret.op = "load"
     /\ ~IsMissing(ret.file)
     /\ ret.file.state_size = ret.before.state_size
     /\ ret.file.action_size = ret.before.action_size
     /\ ret.file.hidden_size = ret.before.hidden_size)
        => /\ ret.exc = "none"
           /\ agent.qnetwork_local = ret.file.qnetwork_local_state_dict
           /\ agent.qnetwork_target = ret.file.qnetwork_target_state_dict
           /\ agent.epsilon = ret.file.epsilon

\* C11 witness: a checkpoint of the agent's dimensions was loaded over
\* networks and an epsilon that were others.
C11_Witness ==
    /\ ret.op = "load" /\ ret.exc = "none"
    /\ ~IsMissing(ret.file)
    /\ ret.file.hidden_size = ret.before.hidden_size
    /\ agent.qnetwork_local = ret.file.qnetwork_local_state_dict
    /\ agent.qnetwork_local # ret.before.qnetwork_local
    /\ agent.qnetwork_target # ret.before.qnetwork_target
    /\ agent.epsilon # ret.before.epsilon

\* C12 as stated: the state that reset() and step() return is the same at
\* whatever time the run is executed: the run that draws the same random
\* outcomes, has the same category statistics and takes the same actions,
\* and so has the same environment, observes the same state under every
\* clock.  (The reward and done are computed without the clock.)
C12_StateIndependentOfClock ==
    (ret.op \in {"reset", "step"} /\ ret.exc = "none")
        => \A clock \in Clock : _create_state(env, clock).state = ret.state

\* The condition score the spec gives a condition name, in tenths
SpecConditionScoreTenths(condition) ==
    IF condition = CondNew THEN 10
    ELSE IF condition = CondLikeNew THEN 9
    ELSE IF condition = CondVeryGood THEN 8
    ELSE IF condition = CondGood THEN 6
    ELSE IF condition = CondAcceptable THEN 4
    ELSE IF condition = CondForParts THEN 1
    ELSE 5

\* C13 as stated: the condition_score of the observation reset() returns is
\* 1.0 for New, 0.9 for Like New, 0.8 for Very Good, 0.6 for Good, 0.4 for
\* Acceptable and 0.1 for For parts or not working.
C13_ConditionScore ==
    (ret.op = "reset" /\ ret.exc = "none")
        => DictGet(ret.state, "condition_score") =
               FLit(SpecConditionScoreTenths(env.current_item.condition), 10)

\* The env.step calls of one episode of the run: max_steps of the
\* environment, or the max_steps argument when that is smaller; an argument
\* below 1 counts as 1, the test coming after the step.
EpisodeSteps ==
    IF run.max_steps = <<>> THEN env.max_steps
    ELSE Min(Max(run.max_steps[1], 1), env.max_steps)

C15_DefaultTableOnBadSource ==
    ~IsNone(env) =>
        /\ env.category_stats = MockCategoryStats
        /\ ret.op \in {"reset", "step"} => ret.exc = "none"

\* The items reset() can put in place in the environment runs
GeneratedItems ==
    {_generate_random_item(category_id, condition, r) :
        category_id \in Range(Prefix(GeneratorCategories, NumCategories)),
        condition \in Range(Prefix(Conditions, NumConditions)),
        r \in RandomOutcomes}

\* C16: reset(), whatever the episode step it is called at, leaves the
\* episode step counter at 0 and a newly generated item in place, and returns
\* the state of that item, whose step feature is 0; the steps that follow
\* are counted from that reset, and done comes with the max_steps-th of them.
C16_ResetStartsEpisode ==
    /\ (ret.op = "reset" /\ ret.exc = "none") =>
          /\ env.episode_step = 0
          /\ env.current_item \in GeneratedItems
          /\ env.current_state = ret.state
          /\ DictGet(ret.state, "step") = FZero
    /\ (ret.op = "step" /\ ret.exc = "none") =>
          /\ env.episode_step = steps_since_reset
          /\ ret.done <=> steps_since_reset >= env.max_steps

\* C16 witness: reset was called in the middle of an episode of MaxSteps
\* steps, with an item in place.
C16_Witness ==
    /\ ret.op = "reset" /\ ret.exc = "none"
    /\ ret.had_item
    /\ env.max_steps = MaxSteps
    /\ ret.at_step >= 1
    /\ ret.at_step < env.max_steps

\* The networks, the optimizer and epsilon of an agent
Learnt(self) ==
    <<self.qnetwork_local, self.qnetwork_target, self.optimizer, self.epsilon>>

\* C17: every agent.step call of train appends its transition to the replay
\* buffer and advances t_step modulo update_every; it makes the learning
\* update when t_step wraps to 0 and the buffer then holds more than
\* batch_size transitions, and in every other call the networks, the
\* optimizer and epsilon stay as they are.
C17_StepLearnsWhenDue ==
    [][(run.pc = "update" /\ run.op = "train") =>
         /\ memory' = DequeAppend(memory, buffer_size,
                                  Experience(run.state, run.action, run.reward,
                                             run.next_state, run.done))
         /\ agent'.t_step = (agent.t_step + 1) % agent.update_every
         /\ IF agent'.t_step = 0 /\ Len(memory') > agent.batch_size
            THEN \E stepped \in RunSteppedData :
                   Learnt(agent') = Learnt(_learn(agent, stepped))
            ELSE Learnt(agent') = Learnt(agent)]_vars

\* C17 witness: an agent that learns in every second call has made step
\* calls that did not learn and then one that did.
C17_Witness ==
    /\ run.pc # "idle" /\ run.op = "train"
    /\ agent.update_every = 2
    /\ Len(added) >= 4
    /\ agent.optimizer.steps = 1

\* C18: from an epsilon that is no less than epsilon_min, with
\* 0 < epsilon_decay <= 1, no act or step call raises epsilon or takes it
\* below epsilon_min; a step call that makes the learning update leaves
\* max(epsilon_min, epsilon * epsilon_decay), and any other call leaves
\* epsilon as it was.
C18_EpsilonSchedule ==
    [][(/\ ~FLess(agent.epsilon, agent.epsilon_min)
        /\ FLess(FZero, agent.epsilon_decay)
        /\ ~FLess(FInt(1), agent.epsilon_decay)) =>
          /\ ~FLess(agent'.epsilon, agent.epsilon_min)
          /\ ~FLess(agent.epsilon, agent'.epsilon)
          /\ IF agent'.optimizer.steps # agent.optimizer.steps
             THEN agent'.epsilon =
                      IF FLess(agent.epsilon_min,
                               FMul(agent.epsilon, agent.epsilon_decay))
                      THEN FMul(agent.epsilon, agent.epsilon_decay)
                      ELSE agent.epsilon_min
             ELSE agent'.epsilon = agent.epsilon]_vars

\* C18 witness: after two learning updates epsilon lies at epsilon_min,
\* below the epsilon_start of the config.
C18_Witness ==
    /\ run = None /\ ret.op = "act"
    /\ agent.optimizer.steps = 2
    /\ agent.epsilon = agent.epsilon_min
    /\ FLess(agent.epsilon_min, FLit(1, 50))
    /\ agent.epsilon_decay = FLit(1, 2)

\* C20: in a learning update the target value of a sampled transition with
\* done set is its reward, and that of one with done clear is its reward
\* plus gamma times the greatest action value the target network gives at
\* its next_state.
C20_TargetValue ==
    (ret.op = "step" /\ ret.learned) =>
        \A i \in DOMAIN ret.experiences :
            ret.q_targets[i] =
                IF ret.experiences[i].done
                THEN ret.experiences[i].reward
                ELSE FAdd(ret.experiences[i].reward,
                          FMul(agent.gamma, MaxOf(ret.next_values[i].target)))

\* C20 witness: a learning update has sampled a transition with done set,
\* at a next state where the target network's greatest action value is not
\* the online network's, from a buffer that also holds one with done clear.
C20_Witness ==
    /\ ret.op = "step" /\ ret.learned
    /\ ret.experiences[1].done
    /\ MaxOf(ret.next_values[1].local) # MaxOf(ret.next_values[1].target)
    /\ ~FIsZero(FMul(agent.gamma, MaxOf(ret.next_values[1].target)))
    /\ \E i \in DOMAIN memory : ~memory[i].done

\* The entries of the parameters of a network
Data(net) == [i \in 1..Len(net) |-> net[i].data]

\* C21: a step call that makes the learning update leaves in every target
\* parameter tau times the online parameter the gradient step of that update
\* left plus (1 - tau) times the target parameter it held, so a tau of 0
\* leaves the target network as it was and a tau of 1 leaves it equal to
\* the online network; no other act or step call changes a parameter of
\* either network.
C21_SoftUpdateAfterStep ==
    [][IF agent'.optimizer.steps # agent.optimizer.steps
       THEN /\ agent'.optimizer.steps = agent.optimizer.steps + 1
            /\ \A p \in {<<agent'.qnetwork_local[i].data,
                           agent.qnetwork_target[i].data,
                           agent'.qnetwork_target[i].data>> :
                              i \in 1..Len(agent.qnetwork_target)} :
                  p[3] = FAdd(FMul(agent.tau, p[1]),
                              FMul(FSub(FInt(1), agent.tau), p[2]))
            /\ agent.tau = FZero =>
                  Data(agent'.qnetwork_target) = Data(agent.qnetwork_target)
            /\ agent.tau = FInt(1) =>
                  Data(agent'.qnetwork_target) = Data(agent'.qnetwork_local)
       ELSE /\ agent'.qnetwork_target = agent.qnetwork_target
            /\ agent'.qnetwork_local = agent.qnetwork_local]_vars

\* C21 witness: two learning updates with a tau strictly between 0 and 1
\* have moved the online network and, after it, the target network.
C21_Witness ==
    /\ run = None /\ agent.optimizer.steps = 2
    /\ agent.tau = FLit(1, 2)
    /\ agent.qnetwork_local[1].data = FLit(-7, 10)
    /\ agent.qnetwork_target[1].data # FLit(-1, 8)
    /\ agent.qnetwork_target[1].data # agent.qnetwork_local[1].data

\* C22: a step call that returns leaves the item's price at the price before
\* the call times (1 + the adjustment of its action) and reports the two
\* prices as info.original_price and info.new_price; a call of
\* get_state_space_size, get_state_feature_names or get_action_meanings
\* leaves the item and the step counter as they were.
C22_StepCompoundsPrice ==
    [][/\ (ret'.op = "step" /\ ret'.exc = "none") =>
             /\ env'.current_item.price =
                    FMul(env.current_item.price,
                         FAdd(FInt(1), _action_to_adjustment(env, ret'.action)))
             /\ ret'.info.original_price = env.current_item.price
             /\ ret'.info.new_price = env'.current_item.price
             /\ env'.episode_step = env.episode_step + 1
       /\ ret'.op \in {"get_state_space_size", "get_state_feature_names",
                       "get_action_meanings"} =>
             /\ env'.current_item = env.current_item
             /\ env'.episode_step = env.episode_step]_vars

\* C22 witness: a second step of an episode has adjusted the price the first
\* step left, which was not the price the item was generated with.
C22_Witness ==
    /\ ret.op = "step" /\ ret.exc = "none"
    /\ steps_since_reset = 2
    /\ \A item \in GeneratedItems : ret.info.original_price # item.price
    /\ ret.info.new_price # ret.info.original_price
    /\ env.current_item.price = ret.info.new_price

\* C23: every step that returns reports a sale_probability of at least 0.01
\* and at most 1.0 and an expected_days of at least 1.0.
C23_ResponseBounds ==
    (ret.op = "step" /\ ret.exc = "none") =>
        /\ ~FLess(ret.info.sale_probability, FLit(1, 100))
        /\ ~FLess(FInt(1), ret.info.sale_probability)
        /\ ~FLess(ret.info.expected_days, FInt(1))

\* C23 witness: steps have returned a sale_probability and an expected_days
\* at the bounds: the jitter had taken the values before the clamp beyond.
C23_Witness ==
    /\ ret.op = "step" /\ ret.exc = "none"
    /\ ret.info.sale_probability = FLit(1, 100)
    /\ ret.info.expected_days = FInt(1)
    /\ env.market_volatility = FInt(10)

\* The statistics record of the current item's category
ItemStats == env.category_stats[env.current_item.category_id]

\* C24: reset and step raise ZeroDivisionError only in an environment whose
\* max_steps is 0, and with a max_steps above 0 a reset, or a step on an
\* item, returns.  In the state returned for a category whose price_std is 0
\* the normalized price is 0; in the reward of a step the normalized profit
\* is 0 when the price before the step was 0, and the time penalty is
\* expected_days / 10 when the category's avg_days_to_sell is 0.
C24_ZeroGuards ==
    ret.op \in {"reset", "step"} =>
        /\ ret.exc = "ZeroDivisionError" => env.max_steps = 0
        /\ (env.max_steps > 0 /\ ~IsNone(env.current_item)) => ret.exc = "none"
        /\ (ret.exc = "none" /\ ItemStats.price_std = FZero) =>
              DictGet(ret.state, "normalized_price") = FZero
        /\ (ret.op = "step" /\ ret.exc = "none") =>
              LET normalized_profit ==
                      IF ret.info.original_price = FZero THEN FZero
                      ELSE FDiv(FSub(ret.info.new_price,
                                     FMul(ret.info.original_price, FLit(7, 10))),
                                ret.info.original_price)
                  time_penalty ==
                      FDiv(ret.info.expected_days,
                           IF ItemStats.avg_days_to_sell = FZero THEN FInt(10)
                           ELSE ItemStats.avg_days_to_sell)
              IN ret.reward =
                     FAdd(FMul(FMul(normalized_profit, ret.info.sale_probability),
                               env.reward_weights.profit),
                          FMul(FNeg(time_penalty), env.reward_weights.time))

\* C24 witness: a step has returned a state and a reward for an item whose
\* price was 0, of a category whose price_std and avg_days_to_sell are 0.
C24_Witness ==
    /\ ret.op = "step" /\ ret.exc = "none"
    /\ ret.info.original_price = FZero
    /\ ItemStats.price_std = FZero
    /\ ItemStats.avg_days_to_sell = FZero
    /\ ~FIsZero(ret.reward)

\* C24 as stated: no reset and no step divides by zero.
C24_NeverDividesByZero ==
    ret.op \in {"reset", "step"} => ret.exc # "ZeroDivisionError"

\* C25: with profit_weight = 1 and time_weight = 0 the reward of a step on an
\* item of positive price is (new_price - 0.7 * original_price) /
\* original_price times sale_probability, whatever expected_days and the
\* category's avg_days_to_sell are.
C25_ProfitOnlyReward ==
    (/\ ret.op = "step" /\ ret.exc = "none"
     /\ env.reward_weights = [profit |-> FInt(1), time |-> FZero]
     /\ FLess(FZero, ret.info.original_price)) =>
        ret.reward =
            FMul(FDiv(FSub(ret.info.new_price,
                           FMul(ret.info.original_price, FLit(7, 10))),
                      ret.info.original_price),
                 ret.info.sale_probability)

\* C25 witness: such a step has returned a reward other than 0, for a
\* category with an avg_days_to_sell above 0 and an expected_days above 1.
C25_Witness ==
    /\ ret.op = "step" /\ ret.exc = "none"
    /\ env.reward_weights = [profit |-> FInt(1), time |-> FZero]
    /\ FLess(FZero, ret.info.original_price)
    /\ FLess(FZero, ItemStats.avg_days_to_sell)
    /\ FLess(FInt(1), ret.info.expected_days)
    /\ ~FIsZero(ret.reward)

\* The file names train has given to save once n episodes are over: that of
\* every episode whose number is a multiple of save_freq, in order
RECURSIVE PeriodicSaves(_, _)
PeriodicSaves(n, save_freq) ==
    IF n = 0 THEN <<>>
    ELSE IF n % save_freq = 0
    THEN Append(PeriodicSaves(n - 1, save_freq), <<"dqn_model_episode", n>>)
    ELSE PeriodicSaves(n - 1, save_freq)

\* C26: while train runs it has saved dqn_model_episode_<e> for the episodes
\* e over whose number is a multiple of save_freq, and nothing else; once it
\* has returned it has saved dqn_model_final after those, once, the file
\* holds the agent as it is, and the statistics returned give that file's
\* path as model_path and the agent's epsilon as final_epsilon.
C26_TrainCheckpoints ==
    (run.pc # "idle" /\ run.op = "train" /\ run.pc # "raised") =>
        IF run.pc = "returned"
        THEN /\ run.saved = Append(PeriodicSaves(run.episodes, run.save_freq),
                                   <<"dqn_model_final">>)
             /\ run.result.model_path = <<"models", <<"dqn_model_final">>>>
             /\ DictGet(run.files, <<"dqn_model_final">>) = Checkpoint(agent)
             /\ run.result.final_epsilon = agent.epsilon
        ELSE run.saved = PeriodicSaves(Len(run.scores), run.save_freq)

\* C26 witness: a train of two episodes with save_freq = 2 has returned
\* after learning updates, with one periodic checkpoint and the final one.
C26_Witness ==
    /\ run.pc = "returned" /\ run.op = "train"
    /\ run.episodes = 2 /\ run.save_freq = 2
    /\ run.saved = <<<<"dqn_model_episode", 2>>, <<"dqn_model_final">>>>
    /\ agent.optimizer.steps > 0
    /\ FLess(run.result.final_epsilon, FInt(1))

\* The category ids the one-hot flags of _extract_item_features test for
FlagCategoryIds == [i \in 1..Len(CategoryFlags) |-> CategoryFlags[i][2]]

\* The flags of a state that are 1.0
SetFlags(state) ==
    {i \in 1..Len(CategoryFlags) : DictGet(state, CategoryFlags[i][1]) = FInt(1)}

\* C27: the generator's category list, the one-hot flag list and the list of
\* the mock statistics name the same twenty category ids, every one with a
\* row in the mock statistics; and in the state of every reset() and of
\* every step after it exactly one category flag is 1.0, the others are 0.0,
\* the flag set is that of the item's category, and category_stats has an
\* entry for that category.
C27_OneHotCategory ==
    /\ GeneratorCategories = FlagCategoryIds
    /\ GeneratorCategories = MockCategoryIds
    /\ Cardinality(Range(GeneratorCategories)) = Len(GeneratorCategories)
    /\ Cardinality({CategoryFlags[i][1] : i \in 1..Len(CategoryFlags)})
           = Len(CategoryFlags)
    /\ DOMAIN MockCategoryStats = Range(GeneratorCategories)
    /\ \A i \in 1..Len(MockCategoryIds) : MockStatsTenths[i][1] = MockCategoryIds[i]
    /\ (ret.op \in {"reset", "step"} /\ ret.exc = "none") =>
          /\ env.current_state = ret.state
          /\ Cardinality(SetFlags(ret.state)) = 1
          /\ \A i \in 1..Len(CategoryFlags) :
                /\ DictGet(ret.state, CategoryFlags[i][1]) \in {FZero, FInt(1)}
                /\ i \in SetFlags(ret.state)
                      <=> CategoryFlags[i][2] = env.current_item.category_id
          /\ env.current_item.category_id \in DOMAIN env.category_stats
          /\ env.category_stats[env.current_item.category_id]
                 = MockCategoryStats[env.current_item.category_id]

\* C27 witness: the second step of an episode whose item reset() drew from
\* the last category of the list, with is_bicycle the flag set.
C27_Witness ==
    /\ ret.op = "step" /\ ret.exc = "none"
    /\ env.episode_step = 2
    /\ env.current_item.category_id = "220"
    /\ DictGet(ret.state, "is_bicycle") = FInt(1)
    /\ DictGet(ret.state, "is_laptop") = FZero

\* The number of env.step calls of the episodes before episode i
RECURSIVE StepsBefore(_, _)
StepsBefore(env_steps, i) ==
    IF i = 1 THEN 0 ELSE StepsBefore(env_steps, i - 1) + env_steps[i - 1]

\* The episode the k-th env.step call of a run was made in
EpisodeOf(env_steps, k) ==
    CHOOSE i \in 1..Len(env_steps) :
        StepsBefore(env_steps, i) < k /\ k <= StepsBefore(env_steps, i) + env_steps[i]

\* C28: in train every env.step call that returned has its transition
\* stored before the next one, and the k-th transition stored has
\* done = True exactly when its env.step call was the max_steps-th (of the
\* environment) of its episode; so the last transition of an episode that
\* train's max_steps argument ended earlier is stored with done = False.
C28_StoredDoneIsEnvDone ==
    (run.pc \notin {"idle", "raised"} /\ run.op = "train") =>
        /\ Len(added) = StepsBefore(run.env_steps, Len(run.env_steps) + 1)
                            - (IF run.pc = "update" THEN 1 ELSE 0)
        /\ \A k \in 1..Len(added) :
              LET i == EpisodeOf(run.env_steps, k)
              IN  added[k].done <=> k - StepsBefore(run.env_steps, i) = env.max_steps
        /\ \A i \in 1..Len(run.scores) :
              (run.env_steps[i] > 0 /\ run.env_steps[i] < env.max_steps) =>
                  ~added[StepsBefore(run.env_steps, i + 1)].done
        /\ run.pc = "update" => run.done = (env.episode_step >= env.max_steps)

\* C28 witness: train(max_steps=1) on an environment of max_steps = 2 has
\* ended its first episode after one step, whose transition is stored with
\* done = False, and has stored the first transition of the second.
C28_Witness ==
    /\ run.pc \notin {"idle", "raised"} /\ run.op = "train"
    /\ run.max_steps = <<1>> /\ env.max_steps = 2
    /\ Len(run.scores) >= 1 /\ run.env_steps[1] = 1
    /\ Len(added) = 2
    /\ ~added[1].done

\* C28 witness: a transition stored with done = True by a train whose
\* max_steps argument is None
C28_WitnessDone ==
    /\ run.pc \notin {"idle", "raised"} /\ run.op = "train"
    /\ run.max_steps = <<>>
    /\ Len(added) = 2 /\ added[2].done /\ ~added[1].done

\* The DQNAgent.step calls, of the first calls made, that attempt to learn
\* and find more than batch_size transitions in a buffer that has lost none
LearningCalls(calls, self) ==
    {k \in 1..calls : k % self.update_every = 0 /\ k > self.batch_size}

\* C29: for an agent with update_every >= 1, t_step is at every moment the
\* number of DQNAgent.step calls made since the agent was constructed,
\* modulo update_every, whatever the episodes of train they were made in:
\* 0 <= t_step < update_every, and the learning updates made are those of
\* every update_every-th call that found more than batch_size transitions.
C29_TStepCountsAllCalls ==
    /\ agent.update_every >= 1
    /\ 0 <= agent.t_step /\ agent.t_step < agent.update_every
    /\ agent.t_step = Len(added) % agent.update_every
    /\ Len(memory) = Len(added)
    /\ agent.optimizer.steps = Cardinality(LearningCalls(Len(added), agent))

\* C29 witness: the second episode of a train starts with the counter at 1
\* (update_every = 2, one step call in the first episode), and the step
\* call of that episode has wrapped it to 0.
C29_Witness ==
    /\ run.pc = "episode_end" /\ run.op = "train"
    /\ run.episode = 2 /\ run.env_steps = <<1, 1>>
    /\ agent.update_every = 2
    /\ Len(added) = 2 /\ agent.t_step = 0

\* C29 witness: a train over two episodes has learnt in its second, third
\* and fourth step calls, two of which were made in the second episode
C29_WitnessLearning ==
    /\ run.pc = "returned" /\ run.op = "train"
    /\ run.env_steps = <<2, 2>>
    /\ agent.update_every = 1 /\ agent.batch_size = 1
    /\ agent.optimizer.steps = 3

\* C30: a step call made when the step counter has reached max_steps of an
\* episode reset() started (the call that took it there returned
\* done = True) does not raise: it multiplies the item's price by
\* 1 + adjustment as any step does, which changes the price whenever the
\* action's adjustment is not 0.0, takes the step counter past max_steps and
\* returns done = True again.
C30_DoneStaysTrue ==
    [][(/\ ~IsNone(env.current_item)
        /\ env.episode_step >= env.max_steps
        /\ ret'.op = "step")
       => /\ ret'.exc = "none"
          /\ ret'.done
          /\ env'.episode_step = env.episode_step + 1
          /\ env'.episode_step > env.max_steps
          /\ ret'.info.step = env'.episode_step
          /\ ret'.info.original_price = env.current_item.price
          /\ env'.current_item.price
                 = NewPrice(env.current_item.price, ret'.info.price_adjustment)
          /\ ret'.info.new_price = env'.current_item.price
          /\ env'.current_item.price = env.current_item.price
                 <=> FIsZero(ret'.info.price_adjustment)]_vars

\* C30 witness: the second step call after the one that ended the episode
\* has returned done = True, with the price changed once more.
C30_Witness ==
    /\ ret.op = "step" /\ ret.exc = "none" /\ ret.done
    /\ steps_since_reset = env.max_steps + 2
    /\ env.episode_step = env.max_steps + 2
    /\ ret.info.new_price # ret.info.original_price

\* A step call after the end of the episode whose adjustment is 0.0 (the
\* middle one of three actions): accepted, done = True, the price as it was
C30_WitnessZeroAdjustment ==
    /\ ret.op = "step" /\ ret.exc = "none" /\ ret.done
    /\ env.episode_step > env.max_steps
    /\ FIsZero(ret.info.price_adjustment)
    /\ ret.info.new_price = ret.info.original_price

====
